---- MODULE Spec2Model ----
(***************************************************************************)
(* Test-evaluation engine of evidently's data-quality tests                *)
(* (src/src/evidently/tests/data_quality_tests.py).                        *)
(*                                                                         *)
(* Numbers are fixed-point hundredths: the Python float 0.9 is Num(90),    *)
(* the integer 2 is Num(200).  Python values carry their type, so that     *)
(* `is None`, isinstance(x, str) and arithmetic on None behave as in the   *)
(* interpreter.                                                            *)
(***************************************************************************)
EXTENDS Integers, Sequences, FiniteSets, TLC

VARIABLES columns_info, suite, computed, outcomes, resolved, calls, construction,
          calculations, injected, input, rendered

vars == <<columns_info, suite, computed, outcomes, resolved, calls, construction,
          calculations, injected, input, rendered>>

(***************************************************************************)
(* Python values and call outcomes                                         *)
(***************************************************************************)
None == [type |-> "NoneType"]

Num(x) == [type |-> "num", v |-> x]

Str == [type |-> "str"]

\* a Python int that is a count or a multiplier, not a measurement
PyInt(x) == [type |-> "int", v |-> x]

IsNum(x) == x.type = "num"

Return(x) == [raised |-> FALSE, value |-> x]

Raise(e, msg) == [raised |-> TRUE, exc |-> e, msg |-> msg]

Abs(x) == IF x < 0 THEN -x ELSE x

Max2(a, b) == IF a >= b THEN a ELSE b

\* x / 100.0 on a percentage (whole percents, so the quotient is exact)
Div100(x) == Num(x.v \div 100)

(***************************************************************************)
(* Bounds                                                                  *)
(***************************************************************************)
MaxColumns == 2

\* how often generate_tests() is called on one generator
MaxCalls == 2

ColumnNames == {"age", "income", "region"}

\* columns a dataset may hold; "region" is never in the data
DataColumns == {"age", "income"}

(***************************************************************************)
(* Condition model (evidently.tests.base_test / evidently.tests.utils)     *)
(***************************************************************************)
ConditionFields == {"eq", "gt", "gte", "is_in", "lt", "lte", "not_eq", "not_in"}

\* TestValueCondition(...): every field defaults to None
TestValueCondition(fields) ==
    [f \in ConditionFields |-> IF f \in DOMAIN fields THEN fields[f] ELSE None]

\* approx(value, relative=None, absolute=None)
approx(value, relative, absolute) ==
    [type |-> "approx", value |-> value, relative |-> relative, absolute |-> absolute]

\* a Python list given as is_in / not_in
List(items) == [type |-> "list", items |-> items]

\* TestValueCondition.has_condition(): some field is set
has_condition(condition) == \E f \in ConditionFields : condition[f] # None

\* tolerance of an approximation, times 100:
\* max(absolute, relative * |expected|), an absent tolerance counting as 0
tolerance100(a) ==
    Max2(IF a.absolute = None THEN 0 ELSE 100 * a.absolute.v,
         IF a.relative = None THEN 0 ELSE a.relative.v * Abs(a.value.v))

\* value == threshold, where threshold is a plain value or an approximation
PyEq(value, threshold) ==
    IF threshold.type = "approx"
    THEN 100 * Abs(value.v - threshold.value.v) <= tolerance100(threshold)
    ELSE value = threshold

\* the comparison one set field of a condition makes
FieldHolds(f, threshold, value) ==
    CASE f = "eq"     -> PyEq(value, threshold)
      [] f = "not_eq" -> ~PyEq(value, threshold)
      [] f = "gt"     -> value.v > threshold.v
      [] f = "gte"    -> value.v >= threshold.v
      [] f = "lt"     -> value.v < threshold.v
      [] f = "lte"    -> value.v <= threshold.v
      [] f = "is_in"  -> value \in threshold.items
      [] f = "not_in" -> value \notin threshold.items

\* one set field cannot be evaluated: arithmetic or ordering on a non-number
FieldTypeError(f, threshold, value) ==
    CASE f \in {"eq", "not_eq"} ->
            threshold.type = "approx" /\ (~IsNum(value) \/ ~IsNum(threshold.value))
      [] f \in {"gt", "gte", "lt", "lte"} -> ~IsNum(value) \/ ~IsNum(threshold)
      [] OTHER -> FALSE

SetFields(condition) == {f \in ConditionFields : condition[f] # None}

\* a variant that is satisfied by any one set field
check_value_AnyField(condition, value) ==
    IF \E f \in SetFields(condition) : FieldTypeError(f, condition[f], value)
    THEN Raise("TypeError", "unsupported operand")
    ELSE Return(\E f \in SetFields(condition) : FieldHolds(f, condition[f], value))

\* TestValueCondition.check_value(value): the conjunction of all set fields
check_value(condition, value) ==
    IF \E f \in SetFields(condition) : FieldTypeError(f, condition[f], value)
    THEN Raise("TypeError", "unsupported operand")
    ELSE Return(\A f \in SetFields(condition) : FieldHolds(f, condition[f], value))

\* the explicit conditions a caller may pass to a constructor
NoCondition == TestValueCondition(<<>>)

ExplicitConditions ==
    { TestValueCondition([gt |-> Num(0)]),
      TestValueCondition([gt |-> Num(0), lt |-> Num(1000)]),
      TestValueCondition([lte |-> Num(1300)]),
      TestValueCondition([eq |-> Num(1000), not_in |-> List({Num(0)})]) }

Conditions == {NoCondition} \cup ExplicitConditions

(***************************************************************************)
(* Metric results.  The metrics' own computations are outside this source; *)
(* calculate() is a choice among the results a dataset can give.           *)
(***************************************************************************)
FeatureQualityStats(min, max, mean, percentile_50, std, unique_count, unique_pct, common_pct) ==
    [min |-> min, max |-> max, mean |-> mean, percentile_50 |-> percentile_50,
     std |-> std, unique_count |-> unique_count,
     unique_percentage |-> unique_pct,
     most_common_value_percentage |-> common_pct]

\* rows 8, 8, 12, 12
StatsA == FeatureQualityStats(Num(800), Num(1200), Num(1000), Num(1000), Num(200),
                              Num(200), Num(5000), Num(5000))

\* rows 13, 13, 13, 13: a constant column
StatsB == FeatureQualityStats(Num(1300), Num(1300), Num(1300), Num(1300), Num(0),
                              Num(100), Num(2500), Num(10000))

\* rows 14, 14, 16, 16
StatsC == FeatureQualityStats(Num(1400), Num(1600), Num(1500), Num(1500), Num(100),
                              Num(200), Num(5000), Num(5000))

\* rows 12, 12, 16, 16
StatsD == FeatureQualityStats(Num(1200), Num(1600), Num(1400), Num(1400), Num(200),
                              Num(200), Num(5000), Num(5000))

\* a column of an empty dataset: no statistic is defined
StatsNone == FeatureQualityStats(None, None, None, None, None, None, None, None)

\* a datetime column: min and max are strings, no moments
StatsStr == FeatureQualityStats(Str, Str, None, None, None, Num(400), Num(10000), Num(2500))

\* rows 0, 10, 20, 50 of the second column
StatsG == FeatureQualityStats(Num(0), Num(5000), Num(2000), Num(1500), Num(1900),
                              Num(400), Num(10000), Num(2500))

CurrentStats == {StatsA, StatsB, StatsC, StatsD, StatsNone, StatsStr}

ReferenceStats == {StatsA, StatsB, StatsNone, StatsStr}

\* get_all_features() of a dataset: a dict from column name to its statistics
FeatureDicts(ageStats) ==
    { [c \in cols |-> IF c = "age" THEN a ELSE StatsG] :
        cols \in SUBSET DataColumns, a \in ageStats }

\* results of DataQualityMetrics
DataQualityResults ==
    { [features_stats |-> cur, reference_features_stats |-> ref] :
        cur \in FeatureDicts(CurrentStats),
        ref \in {None} \cup FeatureDicts(ReferenceStats) }

\* correlation matrices over the columns age, income and target, given by
\* their three off-diagonal entries (the matrix is symmetric, diagonal 1)
CorrColumns == {"age", "income", "target"}

CorrelationMatrix(ai, at, it) ==
    [p \in CorrColumns \X CorrColumns |->
        IF p[1] = p[2] THEN Num(100)
        ELSE IF {p[1], p[2]} = {"age", "income"} THEN Num(ai)
        ELSE IF {p[1], p[2]} = {"age", "target"} THEN Num(at)
        ELSE Num(it)]

CorrelationStats(tp, num, tf, pf, matrix) ==
    [target_prediction_correlation |-> tp,
     abs_max_num_features_correlation |-> num,
     abs_max_target_features_correlation |-> tf,
     abs_max_prediction_features_correlation |-> pf,
     correlation_matrix |-> matrix]

CorrK1 == CorrelationStats(Num(50), Num(95), Num(40), Num(30), CorrelationMatrix(50, 40, 20))

\* no target and no prediction column
CorrK2 == CorrelationStats(None, Num(50), None, None, CorrelationMatrix(80, 40, 20))

CorrK3 == CorrelationStats(Num(80), Num(50), Num(95), Num(60), CorrelationMatrix(75, 80, 60))

\* nothing to correlate
CorrK4 == CorrelationStats(None, None, None, None, CorrelationMatrix(50, 40, 20))

\* results of DataQualityCorrelationMetrics
CorrelationResults ==
    { [current |-> cur, reference |-> ref] :
        cur \in {CorrK1, CorrK2, CorrK3}, ref \in {None, CorrK1, CorrK2, CorrK4} }

\* results of DataQualityValueRangeMetrics
ValueRangeResults ==
    { [number_not_in_range |-> n[1], share_not_in_range |-> n[2], rows_count |-> Num(400),
       ref_min |-> r[1], ref_max |-> r[2]] :
        n \in {<<Num(0), Num(0)>>, <<Num(200), Num(50)>>},
        r \in {<<None, None>>, <<Num(800), Num(1200)>>} }

\* results of DataQualityValueListMetrics
ValueListResults ==
    { [number_not_in_list |-> n[1], share_not_in_list |-> n[2], rows_count |-> Num(400)] :
        n \in {<<Num(0), Num(0)>>, <<Num(100), Num(25)>>} }

\* results of DataQualityValueQuantileMetrics
ValueQuantileResults ==
    { [value |-> v, ref_value |-> r] : v \in {Num(1000), Num(1200)}, r \in {None, Num(1000)} }

\* results of DataQualityStabilityMetrics: the number of rows whose target
\* (prediction) differs among rows of equal features; None without the column
StabilityResults ==
    { [number_not_stable_target |-> nt, number_not_stable_prediction |-> np] :
        nt \in {None, Num(0), Num(300)}, np \in {None, Num(0), Num(300)} }

ResultsOf(metric_cls) ==
    CASE metric_cls = "DataQualityMetrics" -> DataQualityResults
      [] metric_cls = "DataQualityStabilityMetrics" -> StabilityResults
      [] metric_cls = "DataQualityCorrelationMetrics" -> CorrelationResults
      [] metric_cls = "DataQualityValueRangeMetrics" -> ValueRangeResults
      [] metric_cls = "DataQualityValueListMetrics" -> ValueListResults
      [] metric_cls = "DataQualityValueQuantileMetrics" -> ValueQuantileResults

(***************************************************************************)
(* Tests and their constructors                                            *)
(***************************************************************************)
CorrelationTests == {"TestTargetPredictionCorrelation", "TestHighlyCorrelatedFeatures",
                     "TestTargetFeaturesCorrelations", "TestPredictionFeaturesCorrelations",
                     "TestCorrelationChanges"}

FeatureTests == {"TestFeatureValueMin", "TestFeatureValueMax", "TestFeatureValueMean",
                 "TestFeatureValueMedian", "TestFeatureValueStd", "TestNumberOfUniqueValues",
                 "TestUniqueValuesShare", "TestMostCommonValueShare"}

ValueRangeTests == {"TestNumberOfOutRangeValues", "TestShareOfOutRangeValues"}

ValueListTests == {"TestNumberOfOutListValues", "TestShareOfOutListValues"}

\* the subclasses of BaseCheckValueTest
ValueTests == CorrelationTests \cup FeatureTests \cup ValueRangeTests \cup ValueListTests
                \cup {"TestValueQuantile"}

TestClasses == ValueTests \cup {"TestMeanInNSigmas"}

\* the direct subclasses of Test, each with a check() of its own
StabilityTests == {"TestConflictTarget", "TestConflictPrediction"}

PlainTests == StabilityTests \cup {"TestValueRange", "TestValueList"}

\* a metric object: its type and its constructor parameters
Metric(cls, params) == [cls |-> cls, params |-> params]

\* the attributes of a test object; value is unset until check() stores it
TestObject(cls, column_name, condition, metric, n_sigmas, corr_diff, left, right) ==
    [cls |-> cls, column_name |-> column_name, condition |-> condition, metric |-> metric,
     n_sigmas |-> n_sigmas, corr_diff |-> corr_diff, left |-> left, right |-> right,
     value |-> [type |-> "unset"]]

\* BaseFeatureDataQualityMetricsTest.__init__ over BaseDataQualityMetricsValueTest.__init__
BaseFeatureDataQualityMetricsTest_init(cls, column_name, condition, metric) ==
    TestObject(cls, column_name, condition,
               IF metric # None THEN metric ELSE Metric("DataQualityMetrics", <<>>),
               None, None, None, None)

\* BaseDataQualityCorrelationsMetricsValueTest.__init__ and TestCorrelationChanges.__init__
BaseDataQualityCorrelationsMetricsValueTest_init(cls, condition, metric) ==
    TestObject(cls, None, condition,
               IF metric # None THEN metric
               ELSE Metric("DataQualityCorrelationMetrics", <<"pearson">>),
               None, IF cls = "TestCorrelationChanges" THEN Num(25) ELSE None, None, None)

\* a variant that builds its own metric whatever it is given
BaseDataQualityValueRangeMetricsTest_init_OwnMetric(cls, column_name, left, right, condition, metric) ==
    TestObject(cls, column_name, condition,
               Metric("DataQualityValueRangeMetrics", <<column_name, left, right>>),
               None, None, left, right)

BaseDataQualityValueRangeMetricsTest_init(cls, column_name, left, right, condition, metric) ==
    TestObject(cls, column_name, condition,
               IF metric # None THEN metric
               ELSE Metric("DataQualityValueRangeMetrics", <<column_name, left, right>>),
               None, None, left, right)

BaseDataQualityValueListMetricsTest_init(cls, column_name, condition, metric) ==
    TestObject(cls, column_name, condition,
               IF metric # None THEN metric
               ELSE Metric("DataQualityValueListMetrics", <<column_name, None>>),
               None, None, None, None)

\* TestConflictTarget.__init__(metric) and TestConflictPrediction.__init__(metric)
TestConflictTarget_init(cls, metric) ==
    TestObject(cls, None, None,
               IF metric # None THEN metric ELSE Metric("DataQualityStabilityMetrics", <<>>),
               None, None, None, None)

TestValueRange_init(column_name, left, right, metric) ==
    TestObject("TestValueRange", column_name, None,
               IF metric # None THEN metric
               ELSE Metric("DataQualityValueRangeMetrics", <<column_name, left, right>>),
               None, None, left, right)

TestValueList_init(column_name, metric) ==
    TestObject("TestValueList", column_name, None,
               IF metric # None THEN metric
               ELSE Metric("DataQualityValueListMetrics", <<column_name, None>>),
               None, None, None, None)

\* a column_name argument that may be None: a given name is a Python string;
\* Name() is the name a test or metric keeps of it
PyStr(name) == [type |-> "str", v |-> name]

Name(column_name) == IF column_name = None THEN None ELSE column_name.v

\* a variant that takes the arguments to conflict only when both are given
TestValueQuantile_init_metric_BothGiven(column_name, quantile, condition, metric) ==
    IF metric # None
    THEN IF column_name # None /\ quantile # None
         THEN Raise("ValueError", "Test parameters and given  metric conflict")
         ELSE Return(TestObject("TestValueQuantile", Name(column_name), condition, metric,
                                None, None, None, None))
    ELSE IF quantile = None
         THEN Raise("ValueError", "Quantile parameter should be present")
         ELSE Return(TestObject("TestValueQuantile", Name(column_name), condition,
                                Metric("DataQualityValueQuantileMetrics",
                                       <<Name(column_name), quantile>>),
                                None, None, None, None))

\* TestValueQuantile.__init__(column_name, quantile, ..., metric)
TestValueQuantile_init_metric(column_name, quantile, condition, metric) ==
    IF metric # None
    THEN IF column_name # None \/ quantile # None
         THEN Raise("ValueError", "Test parameters and given  metric conflict")
         ELSE Return(TestObject("TestValueQuantile", Name(column_name), condition, metric,
                                None, None, None, None))
    ELSE IF quantile = None
         THEN Raise("ValueError", "Quantile parameter should be present")
         ELSE Return(TestObject("TestValueQuantile", Name(column_name), condition,
                                Metric("DataQualityValueQuantileMetrics",
                                       <<Name(column_name), quantile>>),
                                None, None, None, None))

\* TestValueQuantile.__init__ without a pre-built metric, quantile 0.5
TestValueQuantile_init(column_name, condition) ==
    TestValueQuantile_init_metric(PyStr(column_name), Num(50), condition, None).value

TestMeanInNSigmas_init(column_name, n_sigmas, metric) ==
    TestObject("TestMeanInNSigmas", column_name, None,
               IF metric # None THEN metric ELSE Metric("DataQualityMetrics", <<>>),
               n_sigmas, None, None, None)

(***************************************************************************)
(* get_condition() of every value test.  c is the store of calculated      *)
(* metric results, a function from metric to result.                       *)
(***************************************************************************)
NotComputed == Raise("NotComputedError", "metric result is not computed")

\* Metric.get_result(): the cached result, an error before calculate() has run
get_result(metric, c) == IF metric \in DOMAIN c THEN Return(c[metric]) ELSE NotComputed

NoReferenceError ==
    Raise("ValueError", "Neither required test parameters nor reference data has been provided.")

NotNumericalError == Raise("ValueError", "should be numerical or bool")

KeyError == Raise("KeyError", "column_name")

\* a variant that consults the reference before the explicit condition
TestTargetPredictionCorrelation_get_condition_RefFirst(t, c) ==
    IF t.metric \in DOMAIN c /\ c[t.metric].reference # None
         /\ c[t.metric].reference.target_prediction_correlation # None
    THEN Return(TestValueCondition(
             [eq |-> approx(c[t.metric].reference.target_prediction_correlation, None, Num(25))]))
    ELSE IF has_condition(t.condition) THEN Return(t.condition)
    ELSE Return(TestValueCondition([gt |-> Num(0)]))

TestTargetPredictionCorrelation_get_condition(t, c) ==
    IF has_condition(t.condition) THEN Return(t.condition)
    ELSE IF t.metric \notin DOMAIN c THEN NotComputed
    ELSE LET reference_correlation == c[t.metric].reference IN
         IF reference_correlation # None /\ reference_correlation.target_prediction_correlation # None
         THEN Return(TestValueCondition(
                  [eq |-> approx(reference_correlation.target_prediction_correlation, None, Num(25))]))
         ELSE Return(TestValueCondition([gt |-> Num(0)]))

TestHighlyCorrelatedFeatures_get_condition(t, c) ==
    IF has_condition(t.condition) THEN Return(t.condition)
    ELSE IF t.metric \notin DOMAIN c THEN NotComputed
    ELSE LET reference_correlation == c[t.metric].reference IN
         IF reference_correlation # None /\ reference_correlation.abs_max_num_features_correlation # None
         THEN Return(TestValueCondition(
                  [eq |-> approx(reference_correlation.abs_max_num_features_correlation, Num(10), None)]))
         ELSE Return(TestValueCondition([lt |-> Num(90)]))

TestTargetFeaturesCorrelations_get_condition(t, c) ==
    IF has_condition(t.condition) THEN Return(t.condition)
    ELSE IF t.metric \notin DOMAIN c THEN NotComputed
    ELSE LET reference_correlation == c[t.metric].reference IN
         IF reference_correlation # None /\ reference_correlation.abs_max_target_features_correlation # None
         THEN Return(TestValueCondition(
                  [eq |-> approx(reference_correlation.abs_max_target_features_correlation, Num(10), None)]))
         ELSE Return(TestValueCondition([lt |-> Num(90)]))

TestPredictionFeaturesCorrelations_get_condition(t, c) ==
    IF has_condition(t.condition) THEN Return(t.condition)
    ELSE IF t.metric \notin DOMAIN c THEN NotComputed
    ELSE LET reference_correlation == c[t.metric].reference IN
         IF reference_correlation # None /\ reference_correlation.abs_max_prediction_features_correlation # None
         THEN Return(TestValueCondition(
                  [eq |-> approx(reference_correlation.abs_max_prediction_features_correlation, Num(10), None)]))
         ELSE Return(TestValueCondition([lt |-> Num(90)]))

TestCorrelationChanges_get_condition(t, c) ==
    IF has_condition(t.condition) THEN Return(t.condition)
    ELSE Return(TestValueCondition([eq |-> Num(0)]))

TestFeatureValueMin_get_condition(t, c) ==
    IF has_condition(t.condition) THEN Return(t.condition)
    ELSE IF t.metric \notin DOMAIN c THEN NotComputed
    ELSE LET ref_features_stats == c[t.metric].reference_features_stats IN
         IF ref_features_stats # None
         THEN IF t.column_name \notin DOMAIN ref_features_stats THEN KeyError
              ELSE LET min_value == ref_features_stats[t.column_name].min IN
                   IF min_value = Str THEN NotNumericalError
                   ELSE Return(TestValueCondition([gte |-> min_value]))
         ELSE NoReferenceError

TestFeatureValueMax_get_condition(t, c) ==
    IF has_condition(t.condition) THEN Return(t.condition)
    ELSE IF t.metric \notin DOMAIN c THEN NotComputed
    ELSE LET ref_features_stats == c[t.metric].reference_features_stats IN
         IF ref_features_stats # None
         THEN IF t.column_name \notin DOMAIN ref_features_stats THEN KeyError
              ELSE LET max_value == ref_features_stats[t.column_name].max IN
                   IF max_value = Str THEN NotNumericalError
                   ELSE Return(TestValueCondition([lte |-> max_value]))
         ELSE NoReferenceError

TestFeatureValueMean_get_condition(t, c) ==
    IF has_condition(t.condition) THEN Return(t.condition)
    ELSE IF t.metric \notin DOMAIN c THEN NotComputed
    ELSE LET ref_features_stats == c[t.metric].reference_features_stats IN
         IF ref_features_stats # None
         THEN IF t.column_name \notin DOMAIN ref_features_stats THEN KeyError
              ELSE Return(TestValueCondition(
                       [eq |-> approx(ref_features_stats[t.column_name].mean, Num(10), None)]))
         ELSE NoReferenceError

TestFeatureValueMedian_get_condition(t, c) ==
    IF has_condition(t.condition) THEN Return(t.condition)
    ELSE IF t.metric \notin DOMAIN c THEN NotComputed
    ELSE LET ref_features_stats == c[t.metric].reference_features_stats IN
         IF ref_features_stats # None
         THEN IF t.column_name \notin DOMAIN ref_features_stats THEN KeyError
              ELSE Return(TestValueCondition(
                       [eq |-> approx(ref_features_stats[t.column_name].percentile_50, Num(10), None)]))
         ELSE NoReferenceError

TestFeatureValueStd_get_condition(t, c) ==
    IF has_condition(t.condition) THEN Return(t.condition)
    ELSE IF t.metric \notin DOMAIN c THEN NotComputed
    ELSE LET ref_features_stats == c[t.metric].reference_features_stats IN
         IF ref_features_stats # None
         THEN IF t.column_name \notin DOMAIN ref_features_stats THEN KeyError
              ELSE Return(TestValueCondition(
                       [eq |-> approx(ref_features_stats[t.column_name].std, Num(10), None)]))
         ELSE NoReferenceError

\* a variant that derives the condition from the current statistics
TestNumberOfUniqueValues_get_condition_FromCurrent(t, c) ==
    IF has_condition(t.condition) THEN Return(t.condition)
    ELSE IF t.metric \notin DOMAIN c THEN NotComputed
    ELSE LET reference_features_stats == c[t.metric].reference_features_stats
             features_stats == c[t.metric].features_stats IN
         IF reference_features_stats # None
         THEN IF t.column_name \notin DOMAIN features_stats THEN KeyError
              ELSE LET unique_count == features_stats[t.column_name].unique_count IN
                   Return(TestValueCondition([eq |-> approx(unique_count, Num(10), None)]))
         ELSE Return(TestValueCondition([gt |-> Num(100)]))

TestNumberOfUniqueValues_get_condition(t, c) ==
    IF has_condition(t.condition) THEN Return(t.condition)
    ELSE IF t.metric \notin DOMAIN c THEN NotComputed
    ELSE LET reference_features_stats == c[t.metric].reference_features_stats IN
         IF reference_features_stats # None
         THEN IF t.column_name \notin DOMAIN reference_features_stats THEN KeyError
              ELSE LET unique_count == reference_features_stats[t.column_name].unique_count IN
                   Return(TestValueCondition([eq |-> approx(unique_count, Num(10), None)]))
         ELSE Return(TestValueCondition([gt |-> Num(100)]))

TestUniqueValuesShare_get_condition(t, c) ==
    IF has_condition(t.condition) THEN Return(t.condition)
    ELSE IF t.metric \notin DOMAIN c THEN NotComputed
    ELSE LET reference_features_stats == c[t.metric].reference_features_stats IN
         IF reference_features_stats # None
              /\ t.column_name \notin DOMAIN reference_features_stats
         THEN KeyError
         ELSE IF reference_features_stats # None
                   /\ reference_features_stats[t.column_name].unique_percentage # None
         THEN Return(TestValueCondition(
                  [eq |-> approx(Div100(reference_features_stats[t.column_name].unique_percentage),
                                 Num(10), None)]))
         ELSE NoReferenceError

TestMostCommonValueShare_get_condition(t, c) ==
    IF has_condition(t.condition) THEN Return(t.condition)
    ELSE IF t.metric \notin DOMAIN c THEN NotComputed
    ELSE LET reference_features_stats == c[t.metric].reference_features_stats IN
         IF reference_features_stats # None
              /\ t.column_name \notin DOMAIN reference_features_stats
         THEN KeyError
         ELSE IF reference_features_stats # None
                   /\ reference_features_stats[t.column_name].most_common_value_percentage # None
         THEN Return(TestValueCondition(
                  [eq |-> approx(Div100(reference_features_stats[t.column_name].most_common_value_percentage),
                                 Num(10), None)]))
         ELSE Return(TestValueCondition([lt |-> Num(80)]))

TestNumberOfOutRangeValues_get_condition(t, c) ==
    IF has_condition(t.condition) THEN Return(t.condition)
    ELSE Return(TestValueCondition([eq |-> approx(Num(0), None, None)]))

TestShareOfOutRangeValues_get_condition(t, c) ==
    IF has_condition(t.condition) THEN Return(t.condition)
    ELSE Return(TestValueCondition([eq |-> approx(Num(0), None, None)]))

TestNumberOfOutListValues_get_condition(t, c) ==
    IF has_condition(t.condition) THEN Return(t.condition)
    ELSE Return(TestValueCondition([eq |-> approx(Num(0), None, None)]))

TestShareOfOutListValues_get_condition(t, c) ==
    IF has_condition(t.condition) THEN Return(t.condition)
    ELSE Return(TestValueCondition([eq |-> approx(Num(0), None, None)]))

TestValueQuantile_get_condition(t, c) ==
    IF has_condition(t.condition) THEN Return(t.condition)
    ELSE IF t.metric \notin DOMAIN c THEN NotComputed
    ELSE LET ref_value == c[t.metric].ref_value IN
         IF ref_value # None
         THEN Return(TestValueCondition([eq |-> approx(ref_value, Num(10), None)]))
         ELSE NoReferenceError

\* virtual dispatch of get_condition() on the test's class
get_condition(t, c) ==
    CASE t.cls = "TestTargetPredictionCorrelation" -> TestTargetPredictionCorrelation_get_condition(t, c)
      [] t.cls = "TestHighlyCorrelatedFeatures" -> TestHighlyCorrelatedFeatures_get_condition(t, c)
      [] t.cls = "TestTargetFeaturesCorrelations" -> TestTargetFeaturesCorrelations_get_condition(t, c)
      [] t.cls = "TestPredictionFeaturesCorrelations" -> TestPredictionFeaturesCorrelations_get_condition(t, c)
      [] t.cls = "TestCorrelationChanges" -> TestCorrelationChanges_get_condition(t, c)
      [] t.cls = "TestFeatureValueMin" -> TestFeatureValueMin_get_condition(t, c)
      [] t.cls = "TestFeatureValueMax" -> TestFeatureValueMax_get_condition(t, c)
      [] t.cls = "TestFeatureValueMean" -> TestFeatureValueMean_get_condition(t, c)
      [] t.cls = "TestFeatureValueMedian" -> TestFeatureValueMedian_get_condition(t, c)
      [] t.cls = "TestFeatureValueStd" -> TestFeatureValueStd_get_condition(t, c)
      [] t.cls = "TestNumberOfUniqueValues" -> TestNumberOfUniqueValues_get_condition(t, c)
      [] t.cls = "TestUniqueValuesShare" -> TestUniqueValuesShare_get_condition(t, c)
      [] t.cls = "TestMostCommonValueShare" -> TestMostCommonValueShare_get_condition(t, c)
      [] t.cls = "TestNumberOfOutRangeValues" -> TestNumberOfOutRangeValues_get_condition(t, c)
      [] t.cls = "TestShareOfOutRangeValues" -> TestShareOfOutRangeValues_get_condition(t, c)
      [] t.cls = "TestNumberOfOutListValues" -> TestNumberOfOutListValues_get_condition(t, c)
      [] t.cls = "TestShareOfOutListValues" -> TestShareOfOutListValues_get_condition(t, c)
      [] t.cls = "TestValueQuantile" -> TestValueQuantile_get_condition(t, c)

(***************************************************************************)
(* calculate_value_for_test() of every value test                          *)
(***************************************************************************)
TestTargetPredictionCorrelation_calculate_value_for_test(t, c) ==
    IF t.metric \notin DOMAIN c THEN NotComputed
    ELSE Return(c[t.metric].current.target_prediction_correlation)

\* a variant that takes a result that is not there for an undefined value
TestHighlyCorrelatedFeatures_calculate_value_for_test_Lenient(t, c) ==
    IF t.metric \notin DOMAIN c THEN Return(None)
    ELSE Return(c[t.metric].current.abs_max_num_features_correlation)

TestHighlyCorrelatedFeatures_calculate_value_for_test(t, c) ==
    IF t.metric \notin DOMAIN c THEN NotComputed
    ELSE Return(c[t.metric].current.abs_max_num_features_correlation)

TestTargetFeaturesCorrelations_calculate_value_for_test(t, c) ==
    IF t.metric \notin DOMAIN c THEN NotComputed
    ELSE Return(c[t.metric].current.abs_max_target_features_correlation)

TestPredictionFeaturesCorrelations_calculate_value_for_test(t, c) ==
    IF t.metric \notin DOMAIN c THEN NotComputed
    ELSE Return(c[t.metric].current.abs_max_prediction_features_correlation)

\* (diff.abs() > self.corr_diff).sum().sum() / 2
\* a variant that also counts a difference equal to corr_diff
TestCorrelationChanges_calculate_value_for_test_NonStrict(t, c) ==
    IF t.metric \notin DOMAIN c THEN NotComputed
    ELSE LET reference_correlation == c[t.metric].reference
             current_correlation == c[t.metric].current
         IN  IF reference_correlation = None
             THEN Raise("ValueError", "Reference should be present")
             ELSE LET violations ==
                        { p \in CorrColumns \X CorrColumns :
                            Abs(reference_correlation.correlation_matrix[p].v
                                  - current_correlation.correlation_matrix[p].v)
                              >= t.corr_diff.v }
                  IN  Return(Num((100 * Cardinality(violations)) \div 2))

TestCorrelationChanges_calculate_value_for_test(t, c) ==
    IF t.metric \notin DOMAIN c THEN NotComputed
    ELSE LET reference_correlation == c[t.metric].reference
             current_correlation == c[t.metric].current
         IN  IF reference_correlation = None
             THEN Raise("ValueError", "Reference should be present")
             ELSE LET violations ==
                        { p \in CorrColumns \X CorrColumns :
                            Abs(reference_correlation.correlation_matrix[p].v
                                  - current_correlation.correlation_matrix[p].v)
                              > t.corr_diff.v }
                  IN  Return(Num((100 * Cardinality(violations)) \div 2))

TestFeatureValueMin_calculate_value_for_test(t, c) ==
    IF t.metric \notin DOMAIN c THEN NotComputed
    ELSE LET features_stats == c[t.metric].features_stats IN
         IF t.column_name \notin DOMAIN features_stats THEN KeyError
         ELSE LET min_value == features_stats[t.column_name].min IN
              IF min_value = Str THEN NotNumericalError ELSE Return(min_value)

TestFeatureValueMax_calculate_value_for_test(t, c) ==
    IF t.metric \notin DOMAIN c THEN NotComputed
    ELSE LET features_stats == c[t.metric].features_stats IN
         IF t.column_name \notin DOMAIN features_stats THEN KeyError
         ELSE LET max_value == features_stats[t.column_name].max IN
              IF max_value = Str THEN NotNumericalError ELSE Return(max_value)

TestFeatureValueMean_calculate_value_for_test(t, c) ==
    IF t.metric \notin DOMAIN c THEN NotComputed
    ELSE LET features_stats == c[t.metric].features_stats IN
         IF t.column_name \notin DOMAIN features_stats THEN KeyError
         ELSE Return(features_stats[t.column_name].mean)

TestFeatureValueMedian_calculate_value_for_test(t, c) ==
    IF t.metric \notin DOMAIN c THEN NotComputed
    ELSE LET features_stats == c[t.metric].features_stats IN
         IF t.column_name \notin DOMAIN features_stats THEN KeyError
         ELSE Return(features_stats[t.column_name].percentile_50)

TestFeatureValueStd_calculate_value_for_test(t, c) ==
    IF t.metric \notin DOMAIN c THEN NotComputed
    ELSE LET features_stats == c[t.metric].features_stats IN
         IF t.column_name \notin DOMAIN features_stats THEN KeyError
         ELSE Return(features_stats[t.column_name].std)

TestNumberOfUniqueValues_calculate_value_for_test(t, c) ==
    IF t.metric \notin DOMAIN c THEN NotComputed
    ELSE LET features_stats == c[t.metric].features_stats IN
         IF t.column_name \notin DOMAIN features_stats THEN KeyError
         ELSE Return(features_stats[t.column_name].unique_count)

TestUniqueValuesShare_calculate_value_for_test(t, c) ==
    IF t.metric \notin DOMAIN c THEN NotComputed
    ELSE LET features_stats == c[t.metric].features_stats IN
         IF t.column_name \notin DOMAIN features_stats THEN KeyError
         ELSE LET unique_percentage == features_stats[t.column_name].unique_percentage IN
              IF unique_percentage = None THEN Return(None) ELSE Return(Div100(unique_percentage))

TestMostCommonValueShare_calculate_value_for_test(t, c) ==
    IF t.metric \notin DOMAIN c THEN NotComputed
    ELSE LET features_stats == c[t.metric].features_stats IN
         IF t.column_name \notin DOMAIN features_stats THEN KeyError
         ELSE LET most_common_value_percentage == features_stats[t.column_name].most_common_value_percentage IN
              IF most_common_value_percentage = None THEN Return(None) ELSE Return(Div100(most_common_value_percentage))

TestNumberOfOutRangeValues_calculate_value_for_test(t, c) ==
    IF t.metric \notin DOMAIN c THEN NotComputed ELSE Return(c[t.metric].number_not_in_range)

TestShareOfOutRangeValues_calculate_value_for_test(t, c) ==
    IF t.metric \notin DOMAIN c THEN NotComputed ELSE Return(c[t.metric].share_not_in_range)

TestNumberOfOutListValues_calculate_value_for_test(t, c) ==
    IF t.metric \notin DOMAIN c THEN NotComputed ELSE Return(c[t.metric].number_not_in_list)

TestShareOfOutListValues_calculate_value_for_test(t, c) ==
    IF t.metric \notin DOMAIN c THEN NotComputed ELSE Return(c[t.metric].share_not_in_list)

TestValueQuantile_calculate_value_for_test(t, c) ==
    IF t.metric \notin DOMAIN c THEN NotComputed ELSE Return(c[t.metric].value)

\* virtual dispatch of calculate_value_for_test() on the test's class
calculate_value_for_test(t, c) ==
    CASE t.cls = "TestTargetPredictionCorrelation" -> TestTargetPredictionCorrelation_calculate_value_for_test(t, c)
      [] t.cls = "TestHighlyCorrelatedFeatures" -> TestHighlyCorrelatedFeatures_calculate_value_for_test(t, c)
      [] t.cls = "TestTargetFeaturesCorrelations" -> TestTargetFeaturesCorrelations_calculate_value_for_test(t, c)
      [] t.cls = "TestPredictionFeaturesCorrelations" -> TestPredictionFeaturesCorrelations_calculate_value_for_test(t, c)
      [] t.cls = "TestCorrelationChanges" -> TestCorrelationChanges_calculate_value_for_test(t, c)
      [] t.cls = "TestFeatureValueMin" -> TestFeatureValueMin_calculate_value_for_test(t, c)
      [] t.cls = "TestFeatureValueMax" -> TestFeatureValueMax_calculate_value_for_test(t, c)
      [] t.cls = "TestFeatureValueMean" -> TestFeatureValueMean_calculate_value_for_test(t, c)
      [] t.cls = "TestFeatureValueMedian" -> TestFeatureValueMedian_calculate_value_for_test(t, c)
      [] t.cls = "TestFeatureValueStd" -> TestFeatureValueStd_calculate_value_for_test(t, c)
      [] t.cls = "TestNumberOfUniqueValues" -> TestNumberOfUniqueValues_calculate_value_for_test(t, c)
      [] t.cls = "TestUniqueValuesShare" -> TestUniqueValuesShare_calculate_value_for_test(t, c)
      [] t.cls = "TestMostCommonValueShare" -> TestMostCommonValueShare_calculate_value_for_test(t, c)
      [] t.cls = "TestNumberOfOutRangeValues" -> TestNumberOfOutRangeValues_calculate_value_for_test(t, c)
      [] t.cls = "TestShareOfOutRangeValues" -> TestShareOfOutRangeValues_calculate_value_for_test(t, c)
      [] t.cls = "TestNumberOfOutListValues" -> TestNumberOfOutListValues_calculate_value_for_test(t, c)
      [] t.cls = "TestShareOfOutListValues" -> TestShareOfOutListValues_calculate_value_for_test(t, c)
      [] t.cls = "TestValueQuantile" -> TestValueQuantile_calculate_value_for_test(t, c)

(***************************************************************************)
(* get_description() of every value test.  A description is the message    *)
(* with the value and the threshold it was formatted from.                 *)
(***************************************************************************)
Description(msg, value, condition) == [msg |-> msg, value |-> value, condition |-> condition]

FormatError == Raise("TypeError", "unsupported format string passed to NoneType.__format__")

\* an f-string over value and self.get_condition(): a format specification
\* such as :.3g does not accept None; the value is formatted first
Formatted(msg, value, condition) ==
    IF condition.raised THEN condition
    ELSE Return(Description(msg, value, condition.value))

FString(msg, value, has_format_spec, t, c) ==
    IF has_format_spec /\ ~IsNum(value) THEN FormatError
    ELSE Formatted(msg, value, get_condition(t, c))

TestTargetPredictionCorrelation_get_description(t, value, c) ==
    IF value = None THEN Return(Description("No target or prediction in the dataset.", None, None))
    ELSE FString("The correlation between the target and prediction is", value, TRUE, t, c)

TestHighlyCorrelatedFeatures_get_description(t, value, c) ==
    FString("The maximum correlation is", value, TRUE, t, c)

TestTargetFeaturesCorrelations_get_description(t, value, c) ==
    IF value = None THEN Return(Description("No target in the current dataset", None, None))
    ELSE FString("The maximum correlation is", value, TRUE, t, c)

TestPredictionFeaturesCorrelations_get_description(t, value, c) ==
    IF value = None THEN Return(Description("No prediction in the current dataset", None, None))
    ELSE FString("The maximum correlation is", value, TRUE, t, c)

TestCorrelationChanges_get_description(t, value, c) ==
    FString("Number of correlation violations is", value, TRUE, t, c)

TestFeatureValueMin_get_description(t, value, c) ==
    FString("The minimum value of the column is", value, FALSE, t, c)

TestFeatureValueMax_get_description(t, value, c) ==
    FString("The maximum value of the column is", value, FALSE, t, c)

TestFeatureValueMean_get_description(t, value, c) ==
    FString("The mean value of the column is", value, TRUE, t, c)

TestFeatureValueMedian_get_description(t, value, c) ==
    FString("The median value of the column is", value, TRUE, t, c)

TestFeatureValueStd_get_description(t, value, c) ==
    FString("The standard deviation of the column is", value, TRUE, t, c)

TestNumberOfUniqueValues_get_description(t, value, c) ==
    FString("The number of the unique values in the column is", value, FALSE, t, c)

TestUniqueValuesShare_get_description(t, value, c) ==
    FString("The share of the unique values in the column is", value, TRUE, t, c)

TestMostCommonValueShare_get_description(t, value, c) ==
    FString("The most common value in the column is", value, TRUE, t, c)

TestNumberOfOutRangeValues_get_description(t, value, c) ==
    FString("The number of values out of range in the column is", value, FALSE, t, c)

TestShareOfOutRangeValues_get_description(t, value, c) ==
    FString("The share of values out of range in the column is", value, TRUE, t, c)

TestNumberOfOutListValues_get_description(t, value, c) ==
    FString("The number of values out of list in the column is", value, FALSE, t, c)

TestShareOfOutListValues_get_description(t, value, c) ==
    FString("The share of values out of list in the column is", value, TRUE, t, c)

TestValueQuantile_get_description(t, value, c) ==
    FString("The quantile value of the column is", value, TRUE, t, c)

\* virtual dispatch of get_description() on the test's class
get_description(t, value, c) ==
    CASE t.cls = "TestTargetPredictionCorrelation" -> TestTargetPredictionCorrelation_get_description(t, value, c)
      [] t.cls = "TestHighlyCorrelatedFeatures" -> TestHighlyCorrelatedFeatures_get_description(t, value, c)
      [] t.cls = "TestTargetFeaturesCorrelations" -> TestTargetFeaturesCorrelations_get_description(t, value, c)
      [] t.cls = "TestPredictionFeaturesCorrelations" -> TestPredictionFeaturesCorrelations_get_description(t, value, c)
      [] t.cls = "TestCorrelationChanges" -> TestCorrelationChanges_get_description(t, value, c)
      [] t.cls = "TestFeatureValueMin" -> TestFeatureValueMin_get_description(t, value, c)
      [] t.cls = "TestFeatureValueMax" -> TestFeatureValueMax_get_description(t, value, c)
      [] t.cls = "TestFeatureValueMean" -> TestFeatureValueMean_get_description(t, value, c)
      [] t.cls = "TestFeatureValueMedian" -> TestFeatureValueMedian_get_description(t, value, c)
      [] t.cls = "TestFeatureValueStd" -> TestFeatureValueStd_get_description(t, value, c)
      [] t.cls = "TestNumberOfUniqueValues" -> TestNumberOfUniqueValues_get_description(t, value, c)
      [] t.cls = "TestUniqueValuesShare" -> TestUniqueValuesShare_get_description(t, value, c)
      [] t.cls = "TestMostCommonValueShare" -> TestMostCommonValueShare_get_description(t, value, c)
      [] t.cls = "TestNumberOfOutRangeValues" -> TestNumberOfOutRangeValues_get_description(t, value, c)
      [] t.cls = "TestShareOfOutRangeValues" -> TestShareOfOutRangeValues_get_description(t, value, c)
      [] t.cls = "TestNumberOfOutListValues" -> TestNumberOfOutListValues_get_description(t, value, c)
      [] t.cls = "TestShareOfOutListValues" -> TestShareOfOutListValues_get_description(t, value, c)
      [] t.cls = "TestValueQuantile" -> TestValueQuantile_get_description(t, value, c)

(***************************************************************************)
(* check()                                                                 *)
(***************************************************************************)
ByFeature(column_name) == {<<"by_feature", column_name>>}

\* marks records, in order, every status the result object was given
TestResult(description, status, groups) ==
    [description |-> description, status |-> status, groups |-> groups,
     marks |-> <<status>>]

\* groups(): the per-column tests override it; the others inherit the empty
\* mapping.  check() merges it into the result it returns
groups(t) ==
    IF t.cls \in CorrelationTests THEN {} ELSE ByFeature(t.column_name)

\* TestResult.mark_as_fail(description) and TestResult.mark_as_error(description)
mark_as_fail(result, description) ==
    [result EXCEPT !.status = "FAIL", !.description = description,
                   !.marks = Append(@, "FAIL")]

mark_as_error(result, description) ==
    [result EXCEPT !.status = "ERROR", !.description = description,
                   !.marks = Append(@, "ERROR")]

\* what a call of check() leaves behind: its outcome and the test's value attribute
Checked(outcome, value) == [outcome |-> outcome, value |-> value]

\* BaseCheckValueTest.check(), the generic algorithm: resolve the condition,
\* compute the value, describe it, ERROR on None, else evaluate the conjunction
\* the last steps: the outcome of holding the value against the condition
CheckedValue(value, description, holds, g) ==
    IF holds.raised THEN Checked(holds, value)
    ELSE Checked(Return(TestResult(description,
                                   IF holds.value THEN "SUCCESS" ELSE "FAIL", g)),
                 value)

\* the steps after the value is known: describe it, ERROR on None
DescribedValue(condition, value, description, g) ==
    IF description.raised THEN Checked(description, value)
    ELSE IF value = None
    THEN Checked(Return(TestResult(description.value, "ERROR", g)), value)
    ELSE CheckedValue(value, description.value, check_value(condition, value), g)

\* the steps after condition and value were asked for
ResolvedCheck(t, c, condition, value) ==
    IF condition.raised THEN Checked(condition, t.value)
    ELSE IF value.raised THEN Checked(value, t.value)
    ELSE DescribedValue(condition.value, value.value,
                        get_description(t, value.value, c), groups(t))

BaseCheckValueTest_check(t, c) ==
    ResolvedCheck(t, c, get_condition(t, c), calculate_value_for_test(t, c))

\* the part of the per-feature check() after super().check() returned
FeatureValueChecked(super_check) ==
    IF super_check.outcome.raised THEN super_check
    ELSE IF super_check.value = None
    THEN Checked(Return(mark_as_error(super_check.outcome.value,
                    Description("No value for the feature", None, None))),
                 super_check.value)
    ELSE super_check

\* a variant that runs the verdict logic without looking for the column first
BaseFeatureDataQualityMetricsTest_check_NoColumnTest(t, c) ==
    IF t.metric \notin DOMAIN c THEN Checked(NotComputed, t.value)
    ELSE FeatureValueChecked(BaseCheckValueTest_check(t, c))

BaseFeatureDataQualityMetricsTest_check(t, c) ==
    LET result == TestResult(Description("The test was not launched", None, None), "SKIPPED", {})
    IN  IF t.metric \notin DOMAIN c THEN Checked(NotComputed, t.value)
        ELSE IF t.column_name \notin DOMAIN c[t.metric].features_stats
        THEN Checked(Return(mark_as_fail(result,
                        Description("Feature was not found", None, None))), t.value)
        ELSE FeatureValueChecked(BaseCheckValueTest_check(t, c))

\* a variant whose bounds include their end points
TestMeanInNSigmas_check_Inclusive(t, c) ==
    IF t.metric \notin DOMAIN c THEN Checked(NotComputed, t.value)
    ELSE
    LET reference_feature_stats == c[t.metric].reference_features_stats
        features_stats == c[t.metric].features_stats
        current_mean == features_stats[t.column_name].mean
        reference_mean == reference_feature_stats[t.column_name].mean
        reference_std == reference_feature_stats[t.column_name].std
        sigmas_value == reference_std.v * t.n_sigmas.v
        left_condition == reference_mean.v - sigmas_value
        right_condition == reference_mean.v + sigmas_value
        range == [left |-> Num(left_condition), right |-> Num(right_condition)]
    IN  IF reference_feature_stats = None
        THEN Checked(Raise("ValueError", "Reference should be present"), t.value)
        ELSE IF t.column_name \notin DOMAIN features_stats
        THEN Checked(Return(TestResult(Description("Column should be in current data", None, None),
                                       "ERROR", ByFeature(t.column_name))), t.value)
        ELSE IF t.column_name \notin DOMAIN reference_feature_stats
        THEN Checked(Return(TestResult(Description("Column should be in reference data", None, None),
                                       "ERROR", ByFeature(t.column_name))), t.value)
        ELSE IF ~IsNum(reference_std) \/ ~IsNum(reference_mean) \/ ~IsNum(current_mean)
        THEN Checked(Raise("TypeError", "unsupported operand"), t.value)
        ELSE IF left_condition <= current_mean.v /\ current_mean.v <= right_condition
        THEN Checked(Return(TestResult(
                        Description("The mean value of the column is", current_mean, range),
                        "SUCCESS", ByFeature(t.column_name))), t.value)
        ELSE Checked(Return(TestResult(
                        Description("The mean value of the column is", current_mean, range),
                        "FAIL", ByFeature(t.column_name))), t.value)

\* a variant that looks for the column in the reference data first
TestMeanInNSigmas_check_ReferenceFirst(t, c) ==
    IF t.metric \notin DOMAIN c THEN Checked(NotComputed, t.value)
    ELSE IF c[t.metric].reference_features_stats = None
    THEN Checked(Raise("ValueError", "Reference should be present"), t.value)
    ELSE IF t.column_name \notin DOMAIN c[t.metric].reference_features_stats
    THEN Checked(Return(TestResult(Description("Column should be in reference data", None, None),
                                   "ERROR", ByFeature(t.column_name))), t.value)
    ELSE IF t.column_name \notin DOMAIN c[t.metric].features_stats
    THEN Checked(Return(TestResult(Description("Column should be in current data", None, None),
                                   "ERROR", ByFeature(t.column_name))), t.value)
    ELSE
    LET current_mean == c[t.metric].features_stats[t.column_name].mean
        reference_mean == c[t.metric].reference_features_stats[t.column_name].mean
        reference_std == c[t.metric].reference_features_stats[t.column_name].std
        sigmas_value == reference_std.v * t.n_sigmas.v
        left_condition == reference_mean.v - sigmas_value
        right_condition == reference_mean.v + sigmas_value
        range == [left |-> Num(left_condition), right |-> Num(right_condition)]
    IN  IF ~IsNum(reference_std) \/ ~IsNum(reference_mean) \/ ~IsNum(current_mean)
        THEN Checked(Raise("TypeError", "unsupported operand"), t.value)
        ELSE IF left_condition < current_mean.v /\ current_mean.v < right_condition
        THEN Checked(Return(TestResult(
                        Description("The mean value of the column is", current_mean, range),
                        "SUCCESS", ByFeature(t.column_name))), t.value)
        ELSE Checked(Return(TestResult(
                        Description("The mean value of the column is", current_mean, range),
                        "FAIL", ByFeature(t.column_name))), t.value)

TestMeanInNSigmas_check(t, c) ==
    IF t.metric \notin DOMAIN c THEN Checked(NotComputed, t.value)
    ELSE
    LET reference_feature_stats == c[t.metric].reference_features_stats
        features_stats == c[t.metric].features_stats
        current_mean == features_stats[t.column_name].mean
        reference_mean == reference_feature_stats[t.column_name].mean
        reference_std == reference_feature_stats[t.column_name].std
        sigmas_value == reference_std.v * t.n_sigmas.v
        left_condition == reference_mean.v - sigmas_value
        right_condition == reference_mean.v + sigmas_value
        range == [left |-> Num(left_condition), right |-> Num(right_condition)]
    IN  IF reference_feature_stats = None
        THEN Checked(Raise("ValueError", "Reference should be present"), t.value)
        ELSE IF t.column_name \notin DOMAIN features_stats
        THEN Checked(Return(TestResult(Description("Column should be in current data", None, None),
                                       "ERROR", ByFeature(t.column_name))), t.value)
        ELSE IF t.column_name \notin DOMAIN reference_feature_stats
        THEN Checked(Return(TestResult(Description("Column should be in reference data", None, None),
                                       "ERROR", ByFeature(t.column_name))), t.value)
        ELSE IF ~IsNum(reference_std) \/ ~IsNum(reference_mean) \/ ~IsNum(current_mean)
        THEN Checked(Raise("TypeError", "unsupported operand"), t.value)
        ELSE IF left_condition < current_mean.v /\ current_mean.v < right_condition
        THEN Checked(Return(TestResult(
                        Description("The mean value of the column is", current_mean, range),
                        "SUCCESS", ByFeature(t.column_name))), t.value)
        ELSE Checked(Return(TestResult(
                        Description("The mean value of the column is", current_mean, range),
                        "FAIL", ByFeature(t.column_name))), t.value)

\* a variant that takes any defined count for a conflict
TestConflictTarget_check_AnyCount(t, c) ==
    IF t.metric \notin DOMAIN c THEN Checked(NotComputed, t.value)
    ELSE IF c[t.metric].number_not_stable_target = None
    THEN Checked(Return(TestResult(Description("No target in the dataset", None, None),
                                   "ERROR", {})), t.value)
    ELSE IF c[t.metric].number_not_stable_target.v >= 0
    THEN Checked(Return(TestResult(Description("Not stable target rows count is",
                                               c[t.metric].number_not_stable_target, None),
                                   "FAIL", {})), t.value)
    ELSE Checked(Return(TestResult(Description("Target is stable", None, None),
                                   "SUCCESS", {})), t.value)

TestConflictTarget_check(t, c) ==
    IF t.metric \notin DOMAIN c THEN Checked(NotComputed, t.value)
    ELSE IF c[t.metric].number_not_stable_target = None
    THEN Checked(Return(TestResult(Description("No target in the dataset", None, None),
                                   "ERROR", {})), t.value)
    ELSE IF c[t.metric].number_not_stable_target.v > 0
    THEN Checked(Return(TestResult(Description("Not stable target rows count is",
                                               c[t.metric].number_not_stable_target, None),
                                   "FAIL", {})), t.value)
    ELSE Checked(Return(TestResult(Description("Target is stable", None, None),
                                   "SUCCESS", {})), t.value)

TestConflictPrediction_check(t, c) ==
    IF t.metric \notin DOMAIN c THEN Checked(NotComputed, t.value)
    ELSE IF c[t.metric].number_not_stable_prediction = None
    THEN Checked(Return(TestResult(Description("No prediction in the dataset", None, None),
                                   "ERROR", {})), t.value)
    ELSE IF c[t.metric].number_not_stable_prediction.v > 0
    THEN Checked(Return(TestResult(Description("Not stable prediction rows count is",
                                               c[t.metric].number_not_stable_prediction, None),
                                   "FAIL", {})), t.value)
    ELSE Checked(Return(TestResult(Description("Prediction is stable", None, None),
                                   "SUCCESS", {})), t.value)

\* a variant that fails a column only when every row of it is out of range
TestValueRange_check_AllRows(t, c) ==
    IF t.metric \notin DOMAIN c THEN Checked(NotComputed, t.value)
    ELSE IF c[t.metric].number_not_in_range.v >= c[t.metric].rows_count.v
    THEN Checked(Return(TestResult(Description("The column has values out of range.", None, None),
                                   "FAIL", ByFeature(t.column_name))), t.value)
    ELSE Checked(Return(TestResult(Description("All values in the column are within range",
                                               None, None),
                                   "SUCCESS", ByFeature(t.column_name))), t.value)

TestValueRange_check(t, c) ==
    IF t.metric \notin DOMAIN c THEN Checked(NotComputed, t.value)
    ELSE IF c[t.metric].number_not_in_range.v > 0
    THEN Checked(Return(TestResult(Description("The column has values out of range.", None, None),
                                   "FAIL", ByFeature(t.column_name))), t.value)
    ELSE Checked(Return(TestResult(Description("All values in the column are within range",
                                               None, None),
                                   "SUCCESS", ByFeature(t.column_name))), t.value)

TestValueList_check(t, c) ==
    IF t.metric \notin DOMAIN c THEN Checked(NotComputed, t.value)
    ELSE IF c[t.metric].number_not_in_list.v > 0
    THEN Checked(Return(TestResult(Description("The column has values out of list.", None, None),
                                   "FAIL", ByFeature(t.column_name))), t.value)
    ELSE Checked(Return(TestResult(Description("All values in the column are in the list.",
                                               None, None),
                                   "SUCCESS", ByFeature(t.column_name))), t.value)

\* virtual dispatch of check() on the test's class
check(t, c) ==
    CASE t.cls \in FeatureTests -> BaseFeatureDataQualityMetricsTest_check(t, c)
      [] t.cls = "TestMeanInNSigmas" -> TestMeanInNSigmas_check(t, c)
      [] t.cls = "TestConflictTarget" -> TestConflictTarget_check(t, c)
      [] t.cls = "TestConflictPrediction" -> TestConflictPrediction_check(t, c)
      [] t.cls = "TestValueRange" -> TestValueRange_check(t, c)
      [] t.cls = "TestValueList" -> TestValueList_check(t, c)
      [] OTHER -> BaseCheckValueTest_check(t, c)

(***************************************************************************)
(* Test generators over the column catalogue                               *)
(***************************************************************************)
InjectiveSeqs(S, n) ==
    { q \in UNION { [1..k -> S] : k \in 0..n } :
        \A i, j \in DOMAIN q : i # j => q[i] # q[j] }

Range(q) == { q[i] : i \in DOMAIN q }

\* DatasetColumns: the feature-name lists of the column mapping
Catalogues ==
    { ci \in [num_feature_names : InjectiveSeqs(ColumnNames, MaxColumns),
              cat_feature_names : InjectiveSeqs(ColumnNames, MaxColumns)] :
        Range(ci.num_feature_names) \cap Range(ci.cat_feature_names) = {} }

\* DatasetColumns.get_all_columns_list(): all columns in the catalogue's order
get_all_columns_list(ci) == ci.cat_feature_names \o ci.num_feature_names

Generators == {"TestAllColumnsMostCommonValueShare", "TestNumColumnsMeanInNSigmas",
               "TestNumColumnsOutOfRangeValues", "TestCatColumnsOutOfListValues"}

TestAllColumnsMostCommonValueShare_generate_tests(ci) ==
    [i \in DOMAIN get_all_columns_list(ci) |->
        BaseFeatureDataQualityMetricsTest_init("TestMostCommonValueShare",
                                               get_all_columns_list(ci)[i], NoCondition, None)]

\* a variant that walks the numeric columns from the last to the first
TestNumColumnsMeanInNSigmas_generate_tests_Reversed(ci) ==
    [i \in DOMAIN ci.num_feature_names |->
        TestMeanInNSigmas_init(ci.num_feature_names[Len(ci.num_feature_names) + 1 - i], PyInt(2),
                               None)]

TestNumColumnsMeanInNSigmas_generate_tests(ci) ==
    [i \in DOMAIN ci.num_feature_names |->
        TestMeanInNSigmas_init(ci.num_feature_names[i], PyInt(2), None)]

\* a variant that walks every column of the catalogue, numeric or not
TestNumColumnsOutOfRangeValues_generate_tests_AllColumns(ci) ==
    [i \in DOMAIN get_all_columns_list(ci) |->
        BaseDataQualityValueRangeMetricsTest_init("TestShareOfOutRangeValues",
                                                  get_all_columns_list(ci)[i], None, None,
                                                  NoCondition, None)]

TestNumColumnsOutOfRangeValues_generate_tests(ci) ==
    [i \in DOMAIN ci.num_feature_names |->
        BaseDataQualityValueRangeMetricsTest_init("TestShareOfOutRangeValues",
                                                  ci.num_feature_names[i], None, None,
                                                  NoCondition, None)]

TestCatColumnsOutOfListValues_generate_tests(ci) ==
    [i \in DOMAIN ci.cat_feature_names |->
        BaseDataQualityValueListMetricsTest_init("TestShareOfOutListValues",
                                                 ci.cat_feature_names[i], NoCondition, None)]

\* the objects one generate_tests() call makes.  Every constructor call
\* makes a test object and, its metric argument being None, a metric object
\* of its own; an object is identified by the call, the position in the
\* comprehension and its kind.  A variant follows in which the default
\* metric is made once, where the constructor is defined.
Constructed_SharedMetric(tests, call) ==
    [i \in DOMAIN tests |->
        [test |-> tests[i], id |-> <<call, i, "test">>, metric_id |-> <<0, 0, "metric">>]]

Constructed(tests, call) ==
    [i \in DOMAIN tests |->
        [test |-> tests[i], id |-> <<call, i, "test">>, metric_id |-> <<call, i, "metric">>]]

generate_tests(generator, ci) ==
    CASE generator = "TestAllColumnsMostCommonValueShare" ->
            TestAllColumnsMostCommonValueShare_generate_tests(ci)
      [] generator = "TestNumColumnsMeanInNSigmas" ->
            TestNumColumnsMeanInNSigmas_generate_tests(ci)
      [] generator = "TestNumColumnsOutOfRangeValues" ->
            TestNumColumnsOutOfRangeValues_generate_tests(ci)
      [] generator = "TestCatColumnsOutOfListValues" ->
            TestCatColumnsOutOfListValues_generate_tests(ci)

(***************************************************************************)
(* RegressionPerformanceMetrics.calculate(data).  A dataset is a sequence   *)
(* of rows; the statistics of sklearn and of                                *)
(* calculate_regression_performance are kept as terms over the columns they *)
(* are given.                                                               *)
(***************************************************************************)
DataFrame(rows) == [type |-> "DataFrame", rows |-> rows]

Datasets ==
    LET DatasetRows == {[target |-> 1, prediction |-> 1], [target |-> 3, prediction |-> 2]}
    IN  {DataFrame(<<r>>) : r \in DatasetRows}
            \cup {DataFrame(<<r1, r2>>) : r1 \in DatasetRows, r2 \in DatasetRows}

\* data[column]
Column(dataset, name) == [i \in DOMAIN dataset.rows |-> dataset.rows[i][name]]

\* a statistic of the target and prediction columns of one dataset
Statistic(name, dataset) ==
    [stat |-> name, y_true |-> Column(dataset, "target"),
     y_pred |-> Column(dataset, "prediction")]

\* a plot over the current and, if present, the reference dataset
Plot(name, current_data, reference_data) ==
    [plot |-> name, current |-> current_data, reference |-> reference_data]

\* calculate_regression_performance(dataset, columns, error_bias_prefix): the
\* quality metrics of one dataset; the keys of its error bias carry the prefix
calculate_regression_performance(dataset, error_bias_prefix) ==
    [mean_error |-> Statistic("mean_error", dataset),
     mean_abs_error |-> Statistic("mean_abs_error", dataset),
     mean_abs_perc_error |-> Statistic("mean_abs_perc_error", dataset),
     abs_error_max |-> Statistic("abs_error_max", dataset),
     error_std |-> Statistic("error_std", dataset),
     abs_error_std |-> Statistic("abs_error_std", dataset),
     abs_perc_error_std |-> Statistic("abs_perc_error_std", dataset),
     error_normality |-> Statistic("error_normality", dataset),
     underperformance |-> Statistic("underperformance", dataset),
     error_bias |-> [key \in {<<error_bias_prefix, "majority">>} |->
                        Statistic("error_bias", dataset)]]

\* dict.update(other)
update(dict, other) ==
    [key \in DOMAIN dict \cup DOMAIN other |->
        IF key \in DOMAIN other THEN other[key] ELSE dict[key]]

\* the result record, from the metrics of both datasets (reference_metrics is
\* None without reference data)
RegressionPerformanceMetricsResults(data, current_metrics, reference_metrics, rmse_ref, r2_score_ref) ==
    [r2_score |-> Statistic("r2_score", data.current_data),
     rmse |-> Statistic("mean_squared_error", data.current_data),
     rmse_default |-> Statistic("mean_squared_error of mean", data.current_data),
     mean_error |-> current_metrics.mean_error,
     mean_error_ref |-> IF reference_metrics # None THEN reference_metrics.mean_error ELSE None,
     me_default_sigma |-> Statistic("std of error", data.current_data),
     me_hist_for_plot |-> Plot("me_hist", data.current_data, data.reference_data),
     mean_abs_error |-> current_metrics.mean_abs_error,
     mean_abs_error_default |-> Statistic("mean_absolute_error of median", data.current_data),
     mean_abs_perc_error |-> current_metrics.mean_abs_perc_error,
     mean_abs_perc_error_default |->
        Statistic("mean_absolute_percentage_error of constant", data.current_data),
     abs_error_max |-> current_metrics.abs_error_max,
     abs_error_max_default |-> Statistic("max of abs error of median", data.current_data),
     error_std |-> current_metrics.error_std,
     abs_error_std |-> current_metrics.abs_error_std,
     abs_perc_error_std |-> current_metrics.abs_perc_error_std,
     error_normality |-> current_metrics.error_normality,
     underperformance |-> current_metrics.underperformance,
     underperformance_ref |->
        IF reference_metrics # None THEN reference_metrics.underperformance ELSE None,
     hist_for_plot |-> Plot("hist", data.current_data, data.reference_data),
     vals_for_plots |-> Plot("vals", data.current_data, data.reference_data),
     error_bias |-> IF reference_metrics # None
                    THEN update(current_metrics.error_bias, reference_metrics.error_bias)
                    ELSE current_metrics.error_bias,
     mean_abs_error_ref |->
        IF reference_metrics # None THEN reference_metrics.mean_abs_error ELSE None,
     mean_abs_perc_error_ref |->
        IF reference_metrics # None THEN reference_metrics.mean_abs_perc_error ELSE None,
     rmse_ref |-> rmse_ref,
     r2_score_ref |-> r2_score_ref,
     abs_error_max_ref |->
        IF reference_metrics # None THEN reference_metrics.abs_error_max ELSE None]

\* a variant that takes the reference rmse from the current data
RegressionPerformanceMetrics_calculate_CurrentRmse(data) ==
    RegressionPerformanceMetricsResults(
        data,
        calculate_regression_performance(data.current_data, "current_"),
        IF data.reference_data # None
        THEN calculate_regression_performance(data.reference_data, "ref_") ELSE None,
        IF data.reference_data # None
        THEN Statistic("mean_squared_error", data.current_data) ELSE None,
        IF data.reference_data # None
        THEN Statistic("r2_score", data.reference_data) ELSE None)

RegressionPerformanceMetrics_calculate(data) ==
    RegressionPerformanceMetricsResults(
        data,
        calculate_regression_performance(data.current_data, "current_"),
        IF data.reference_data # None
        THEN calculate_regression_performance(data.reference_data, "ref_") ELSE None,
        IF data.reference_data # None
        THEN Statistic("mean_squared_error", data.reference_data) ELSE None,
        IF data.reference_data # None
        THEN Statistic("r2_score", data.reference_data) ELSE None)

\* RegressionPerformanceMetrics.get_parameters()
RegressionPerformanceMetrics_get_parameters == <<>>

\* the input of a metric-only run
InputData(current_data, reference_data) ==
    [current_data |-> current_data, reference_data |-> reference_data]

(***************************************************************************)
(* render_html() of the three range renderers: the condition they hand to  *)
(* plot_check().  All of them read the metric result for the plot.          *)
(***************************************************************************)
TestValueRangeRenderer_render_html(obj, c) ==
    IF obj.metric \notin DOMAIN c THEN NotComputed
    ELSE IF obj.left # None /\ obj.right # None
    THEN Return(TestValueCondition([gt |-> obj.left, lt |-> obj.right]))
    ELSE Return(TestValueCondition([gt |-> c[obj.metric].ref_min,
                                    lt |-> c[obj.metric].ref_max]))

TestNumberOfOutRangeValuesRenderer_render_html(obj, c) ==
    IF obj.metric \notin DOMAIN c THEN NotComputed
    ELSE IF obj.left # None /\ obj.right # None
    THEN Return(TestValueCondition([gt |-> obj.left, lt |-> obj.right]))
    ELSE Return(TestValueCondition([gt |-> c[obj.metric].ref_min,
                                    lt |-> c[obj.metric].ref_max]))

\* "if obj.left and obj.right": None and 0 are both false
TestShareOfOutRangeValuesRenderer_render_html(obj, c) ==
    IF obj.metric \notin DOMAIN c THEN NotComputed
    ELSE IF (obj.left # None /\ obj.left # Num(0)) /\ (obj.right # None /\ obj.right # Num(0))
    THEN Return(TestValueCondition([gt |-> obj.left, lt |-> obj.right]))
    ELSE Return(TestValueCondition([gt |-> c[obj.metric].ref_min,
                                    lt |-> c[obj.metric].ref_max]))

(***************************************************************************)
(* The state machine: a suite is built (one test constructed directly, or  *)
(* a generator expanded over a catalogue), its metrics are calculated, and *)
(* each test is checked once; renderers call get_condition() on a test.    *)
(***************************************************************************)
NotRun == [raised |-> FALSE, value |-> None]

NoGenerator ==
    [generator |-> "none",
     catalogue |-> [num_feature_names |-> <<>>, cat_feature_names |-> <<>>]]

\* a test constructed directly by the caller
NewTest(cls, column_name, condition, n_sigmas, left, right, metric) ==
    CASE cls \in CorrelationTests ->
            BaseDataQualityCorrelationsMetricsValueTest_init(cls, condition, metric)
      [] cls \in FeatureTests ->
            BaseFeatureDataQualityMetricsTest_init(cls, column_name, condition, metric)
      [] cls \in ValueRangeTests ->
            BaseDataQualityValueRangeMetricsTest_init(cls, column_name, left, right, condition,
                                                      metric)
      [] cls \in ValueListTests ->
            BaseDataQualityValueListMetricsTest_init(cls, column_name, condition, metric)
      [] cls = "TestValueQuantile" -> TestValueQuantile_init(column_name, condition)
      [] cls = "TestMeanInNSigmas" -> TestMeanInNSigmas_init(column_name, n_sigmas, metric)
      [] cls \in StabilityTests -> TestConflictTarget_init(cls, metric)
      [] cls = "TestValueRange" -> TestValueRange_init(column_name, left, right, metric)
      [] cls = "TestValueList" -> TestValueList_init(column_name, metric)

\* the metric= argument a caller may pass to a constructor: none, or a metric
\* built beforehand with parameters of the caller's choice
InjectedMetrics(cls) ==
    CASE cls \in CorrelationTests ->
            {None, Metric("DataQualityCorrelationMetrics", <<"spearman">>)}
      [] cls \in ValueRangeTests \cup {"TestValueRange"} ->
            {None, Metric("DataQualityValueRangeMetrics", <<"income", Num(0), Num(1000)>>)}
      [] cls \in ValueListTests \cup {"TestValueList"} ->
            {None, Metric("DataQualityValueListMetrics", <<"income", None>>)}
      [] cls \in StabilityTests -> {None, Metric("DataQualityStabilityMetrics", <<>>)}
      [] cls = "TestValueQuantile" -> {None}
      [] OTHER -> {None, Metric("DataQualityMetrics", <<>>)}

NSigmas == {PyInt(2), PyInt(0)}

\* no TestValueQuantile constructor call was recorded
NotConstructed == [called |-> FALSE]

\* the arguments a caller may pass to TestValueQuantile
Quantiles == {None, Num(50), Num(95)}

ColumnArguments == {None} \cup {PyStr(name) : name \in ColumnNames}

PrebuiltMetrics == {None, Metric("DataQualityValueQuantileMetrics", <<"age", Num(50)>>)}

Init ==
    /\ columns_info = NoGenerator
    /\ suite = <<>>
    /\ computed = <<>>
    /\ outcomes = <<>>
    /\ resolved = [test |-> 0, outcome |-> NotRun]
    /\ calls = <<>>
    /\ construction = NotConstructed
    /\ calculations = <<>>
    /\ injected = None
    /\ input = None
    /\ rendered = [test |-> 0, outcome |-> NotRun]

Construct(cls, column_name, condition, n_sigmas, left, right, metric) ==
    /\ suite = <<>>
    /\ computed = <<>>
    /\ columns_info = NoGenerator
    /\ construction = NotConstructed
    /\ suite' = <<NewTest(cls, column_name, condition, n_sigmas, left, right, metric)>>
    /\ outcomes' = <<NotRun>>
    /\ injected' = metric
    /\ UNCHANGED <<columns_info, computed, resolved, calls, construction, calculations, input, rendered>>

\* the left and right arguments a caller may pass to a range test
RangeArguments == {<<None, None>>, <<Num(0), Num(1000)>>, <<Num(800), None>>,
                   <<Num(800), Num(1200)>>}

ConstructAny ==
    \/ \E cls \in ValueTests \ ValueRangeTests, column_name \in ColumnNames,
          condition \in Conditions :
              \E metric \in InjectedMetrics(cls) :
                  Construct(cls, column_name, condition, None, None, None, metric)
    \/ \E cls \in ValueRangeTests, column_name \in ColumnNames, condition \in Conditions,
          bounds \in RangeArguments :
              \E metric \in InjectedMetrics(cls) :
                  Construct(cls, column_name, condition, None, bounds[1], bounds[2], metric)
    \/ \E column_name \in ColumnNames, n_sigmas \in NSigmas :
          \E metric \in InjectedMetrics("TestMeanInNSigmas") :
              Construct("TestMeanInNSigmas", column_name, None, n_sigmas, None, None, metric)
    \/ \E cls \in PlainTests \ {"TestValueRange"}, column_name \in ColumnNames :
          \E metric \in InjectedMetrics(cls) :
              Construct(cls, column_name, None, None, None, None, metric)
    \/ \E column_name \in ColumnNames, bounds \in RangeArguments,
          metric \in InjectedMetrics("TestValueRange") :
              Construct("TestValueRange", column_name, None, None, bounds[1], bounds[2], metric)

\* TestValueQuantile(column_name, quantile, ..., metric=metric): a failed
\* construction leaves no test behind
Constructing(column_name, quantile, metric, made) ==
    /\ construction' = [called |-> TRUE, column_name |-> column_name, quantile |-> quantile,
                        metric |-> metric, outcome |-> made]
    /\ suite' = IF made.raised THEN <<>> ELSE <<made.value>>
    /\ outcomes' = IF made.raised THEN <<>> ELSE <<NotRun>>
    /\ injected' = IF made.raised THEN None ELSE metric

ConstructQuantile(column_name, quantile, condition, metric) ==
    /\ suite = <<>>
    /\ computed = <<>>
    /\ columns_info = NoGenerator
    /\ construction = NotConstructed
    /\ Constructing(column_name, quantile, metric,
                    TestValueQuantile_init_metric(column_name, quantile, condition, metric))
    /\ UNCHANGED <<columns_info, computed, resolved, calls, calculations, input, rendered>>

GenerateTests(generator, ci) ==
    /\ suite = <<>>
    /\ computed = <<>>
    /\ columns_info = NoGenerator
    /\ construction = NotConstructed
    /\ columns_info' = [generator |-> generator, catalogue |-> ci]
    /\ suite' = generate_tests(generator, ci)
    /\ outcomes' = [i \in DOMAIN generate_tests(generator, ci) |-> NotRun]
    /\ calls' = <<Constructed(generate_tests(generator, ci), 1)>>
    /\ UNCHANGED <<computed, resolved, construction, calculations, injected, input, rendered>>

\* generate_tests() called once more on the same generator and catalogue
GenerateAgain ==
    /\ columns_info.generator # "none"
    /\ Len(calls) < MaxCalls
    /\ calls' = Append(calls, Constructed(generate_tests(columns_info.generator,
                                                         columns_info.catalogue),
                                          Len(calls) + 1))
    /\ UNCHANGED <<columns_info, suite, computed, outcomes, resolved, construction, calculations, injected, input, rendered>>

MetricsOf(tests) == { tests[i].metric : i \in DOMAIN tests }

\* how often the runner invokes calculate() per metric: it keeps one metric
\* per (type, parameters) pair of the suite.  A variant invokes it for the
\* metric object of every test.
Invocations_PerTest(tests) ==
    [m \in MetricsOf(tests) |-> Cardinality({i \in DOMAIN tests : tests[i].metric = m})]

Invocations(tests) == [m \in MetricsOf(tests) |-> 1]

\* the runner calculates every metric the suite depends on, once per distinct
\* (type, parameters) pair, before it runs or renders any test; a check() or
\* get_condition() that came first has already failed
Calculate ==
    /\ suite # <<>>
    /\ computed = <<>>
    /\ \A i \in DOMAIN suite : outcomes[i] = NotRun
    /\ resolved.test = 0
    /\ rendered.test = 0
    /\ \E results \in [MetricsOf(suite) -> ResultsOf(suite[1].metric.cls)] :
          computed' = results
    /\ calculations' = Invocations(suite)
    /\ UNCHANGED <<columns_info, suite, outcomes, resolved, calls, construction, injected, input, rendered>>

\* a run of the metric alone: the runner hands it the input data
CalculateRegression(data) ==
    /\ suite = <<>>
    /\ columns_info = NoGenerator
    /\ construction = NotConstructed
    /\ computed = <<>>
    /\ input' = data
    /\ computed' = [m \in {Metric("RegressionPerformanceMetrics",
                                  RegressionPerformanceMetrics_get_parameters)} |->
                        RegressionPerformanceMetrics_calculate(data)]
    /\ calculations' = [m \in {Metric("RegressionPerformanceMetrics",
                                      RegressionPerformanceMetrics_get_parameters)} |-> 1]
    /\ UNCHANGED <<columns_info, suite, outcomes, resolved, calls, construction, injected, rendered>>

\* check() returns its outcome to the runner and leaves the value on the test
Checking(i, checked) ==
    /\ outcomes' = [outcomes EXCEPT ![i] = checked.outcome]
    /\ suite' = [suite EXCEPT ![i].value = checked.value]

Check(i) ==
    /\ outcomes[i] = NotRun
    /\ resolved.test = 0
    /\ rendered.test = 0
    /\ Checking(i, check(suite[i], computed))
    /\ UNCHANGED <<columns_info, computed, resolved, calls, construction, calculations, injected, input, rendered>>

\* a renderer (render_json, render_html) asks the test for its condition.
\* get_condition() reads only the test's condition and the metric result, which
\* check() leaves alone, so it is explored apart from check().
CallGetCondition(i) ==
    /\ suite[i].cls \in ValueTests
    /\ resolved.test = 0
    /\ rendered.test = 0
    /\ \A j \in DOMAIN suite : outcomes[j] = NotRun
    /\ resolved' = [test |-> i, outcome |-> get_condition(suite[i], computed)]
    /\ UNCHANGED <<columns_info, suite, computed, outcomes, calls, construction, calculations, injected, input, rendered>>

\* the report renders a range test: the renderer registered for its class
RenderHtml(i) ==
    /\ suite[i].cls \in ValueRangeTests \cup {"TestValueRange"}
    /\ resolved.test = 0
    /\ rendered.test = 0
    /\ \A j \in DOMAIN suite : outcomes[j] = NotRun
    /\ rendered' =
          [test |-> i,
           outcome |->
              CASE suite[i].cls = "TestValueRange" ->
                      TestValueRangeRenderer_render_html(suite[i], computed)
                [] suite[i].cls = "TestNumberOfOutRangeValues" ->
                      TestNumberOfOutRangeValuesRenderer_render_html(suite[i], computed)
                [] suite[i].cls = "TestShareOfOutRangeValues" ->
                      TestShareOfOutRangeValuesRenderer_render_html(suite[i], computed)]
    /\ UNCHANGED <<columns_info, suite, computed, outcomes, resolved, calls, construction,
                   calculations, injected, input>>

Next ==
    \/ ConstructAny
    \/ \E generator \in Generators, ci \in Catalogues : GenerateTests(generator, ci)
    \/ GenerateAgain
    \/ \E column_name \in ColumnArguments, quantile \in Quantiles,
          condition \in Conditions, metric \in PrebuiltMetrics :
            ConstructQuantile(column_name, quantile, condition, metric)
    \/ Calculate
    \/ \E current_data \in Datasets, reference_data \in Datasets \cup {None} :
          CalculateRegression(InputData(current_data, reference_data))
    \/ \E i \in DOMAIN suite : Check(i)
    \/ \E i \in DOMAIN suite : CallGetCondition(i)
    \/ \E i \in DOMAIN suite : RenderHtml(i)

Spec == Init /\ [][Next]_vars

(***************************************************************************)
(* Properties                                                              *)
(***************************************************************************)
\* check() of test i ran on calculated results (it neither is pending nor
\* failed on a metric that was not computed yet)
CheckedOnResults(i) == outcomes[i] # NotRun /\ outcomes[i] # NotComputed

\* check() of test i returned a TestResult with this status
EndedWith(i, status) ==
    CheckedOnResults(i) /\ ~outcomes[i].raised /\ outcomes[i].value.status = status

\* get_condition() was called on a test and the metric was calculated by then
ResolvedOnResults == resolved.test # 0 /\ resolved.outcome # NotComputed

ResolvedTest == suite[resolved.test]

ResultOf(t) == computed[t.metric]

\* C1: a value test constructed with at least one condition field returns
\* exactly that explicit condition from get_condition(), whatever the metric
\* result holds (not computed, reference absent or present, value None or not)
C1_ExplicitConditionVerbatim ==
    (resolved.test # 0 /\ has_condition(ResolvedTest.condition))
        => resolved.outcome = Return(ResolvedTest.condition)

\* an explicit condition was returned although the reference holds a value
\* the test would otherwise derive its condition from
C1_Witness ==
    /\ resolved.test # 0
    /\ has_condition(ResolvedTest.condition)
    /\ ResolvedTest.cls = "TestTargetPredictionCorrelation"
    /\ computed # <<>>
    /\ ResultOf(ResolvedTest).reference # None
    /\ ResultOf(ResolvedTest).reference.target_prediction_correlation # None
    /\ resolved.outcome = Return(ResolvedTest.condition)

\* the column of test i is absent from the current dataset's feature statistics
ColumnAbsent(i) ==
    /\ suite[i].metric.cls = "DataQualityMetrics"
    /\ computed # <<>>
    /\ suite[i].column_name \notin DOMAIN ResultOf(suite[i]).features_stats

\* C2: check() of a per-feature value test whose column is absent from the
\* current feature statistics returns status SKIPPED with a "feature not
\* found" message and does not raise
C2_AbsentColumnSkipped ==
    \A i \in DOMAIN suite :
        (suite[i].cls \in FeatureTests /\ ColumnAbsent(i) /\ CheckedOnResults(i))
            => /\ ~outcomes[i].raised
               /\ outcomes[i].value.status = "SKIPPED"
               /\ outcomes[i].value.description.msg = "Feature was not found"

\* C3: every generated test whose column does not exist in the dataset ends
\* with status SKIPPED: never ERROR, never FAIL, never an exception
C3_GeneratedAbsentSkipped ==
    \A i \in DOMAIN suite :
        (columns_info.generator # "none" /\ ColumnAbsent(i) /\ CheckedOnResults(i))
            => EndedWith(i, "SKIPPED")

\* the input a test needs is missing: the reference is required but absent,
\* or the target/prediction correlation under test is undefined
MissingInput(i) ==
    /\ computed # <<>>
    /\ \/ /\ suite[i].cls = "TestMeanInNSigmas"
          /\ ResultOf(suite[i]).reference_features_stats = None
       \/ /\ suite[i].cls = "TestCorrelationChanges"
          /\ ResultOf(suite[i]).reference = None
       \/ /\ suite[i].cls = "TestTargetPredictionCorrelation"
          /\ ResultOf(suite[i]).current.target_prediction_correlation = None
       \/ /\ suite[i].cls = "TestTargetFeaturesCorrelations"
          /\ ResultOf(suite[i]).current.abs_max_target_features_correlation = None
       \/ /\ suite[i].cls = "TestPredictionFeaturesCorrelations"
          /\ ResultOf(suite[i]).current.abs_max_prediction_features_correlation = None

\* C4: a missing input never escapes check() as an exception; check() returns
\* a TestResult with status ERROR
C4_MissingInputIsError ==
    \A i \in DOMAIN suite :
        (MissingInput(i) /\ CheckedOnResults(i)) => EndedWith(i, "ERROR")

\* C5: get_condition() of a value test without explicit condition never
\* returns an empty (always-true) condition: it returns a condition with a
\* field set, or it raises
C5_NeverEmptyCondition ==
    (ResolvedOnResults /\ ~has_condition(ResolvedTest.condition))
        => (resolved.outcome.raised \/ has_condition(resolved.outcome.value))

\* test i was checked although its column is absent from the current data
C2_Witness ==
    \E i \in DOMAIN suite :
        /\ columns_info.generator = "none"
        /\ suite[i].cls = "TestFeatureValueMean"
        /\ ColumnAbsent(i)
        /\ EndedWith(i, "FAIL")

\* a generated most-common-value test ran on a dataset without its column
C3_Witness ==
    \E i \in DOMAIN suite :
        /\ columns_info.generator = "TestAllColumnsMostCommonValueShare"
        /\ ColumnAbsent(i)
        /\ CheckedOnResults(i)
        /\ ~EndedWith(i, "SKIPPED")

\* check() of a mean-stability test raised because the reference is absent
C4_Witness ==
    \E i \in DOMAIN suite :
        /\ suite[i].cls = "TestMeanInNSigmas"
        /\ MissingInput(i)
        /\ outcomes[i] = Raise("ValueError", "Reference should be present")

\* get_condition() of a minimum test returned a condition with no field set
C5_Witness ==
    /\ ResolvedOnResults
    /\ ResolvedTest.cls = "TestFeatureValueMin"
    /\ ~has_condition(ResolvedTest.condition)
    /\ resolved.outcome = Return(NoCondition)

(***************************************************************************)
(* Derived conditions                                                      *)
(***************************************************************************)
\* the reference statistics of the test's column; None when there is none
ReferenceColumn(t, r) ==
    IF r.reference_features_stats = None THEN None
    ELSE IF t.column_name \notin DOMAIN r.reference_features_stats THEN None
    ELSE r.reference_features_stats[t.column_name]

\* one statistic of the reference part
ReferenceStat(holder, field) == IF holder = None THEN None ELSE holder[field]

\* the reference statistic the test of this class is about
ReferenceField(cls) ==
    CASE cls = "TestTargetPredictionCorrelation" -> "target_prediction_correlation"
      [] cls = "TestHighlyCorrelatedFeatures" -> "abs_max_num_features_correlation"
      [] cls = "TestTargetFeaturesCorrelations" -> "abs_max_target_features_correlation"
      [] cls = "TestPredictionFeaturesCorrelations" -> "abs_max_prediction_features_correlation"
      [] cls = "TestFeatureValueMin" -> "min"
      [] cls = "TestFeatureValueMax" -> "max"
      [] cls = "TestFeatureValueMean" -> "mean"
      [] cls = "TestFeatureValueMedian" -> "percentile_50"
      [] cls = "TestFeatureValueStd" -> "std"
      [] cls = "TestNumberOfUniqueValues" -> "unique_count"
      [] cls = "TestUniqueValuesShare" -> "unique_percentage"
      [] cls = "TestMostCommonValueShare" -> "most_common_value_percentage"

\* the tests that derive their condition from a reference statistic
ReferenceDerived == (CorrelationTests \cup FeatureTests \cup {"TestValueQuantile"})
                        \ {"TestCorrelationChanges"}

\* the reference part of a metric result
ReferencePart(t, r) ==
    CASE t.metric.cls = "DataQualityCorrelationMetrics" -> r.reference
      [] t.metric.cls = "DataQualityMetrics" -> r.reference_features_stats
      [] t.metric.cls = "DataQualityValueQuantileMetrics" -> r.ref_value
      [] OTHER -> None

\* the value of the reference statistic of test t in result r; None when the
\* reference, the column in it, or the statistic is missing
ReferenceValue(t, r) ==
    CASE t.cls \in CorrelationTests \ {"TestCorrelationChanges"} ->
            ReferenceStat(r.reference, ReferenceField(t.cls))
      [] t.cls \in FeatureTests -> ReferenceStat(ReferenceColumn(t, r), ReferenceField(t.cls))
      [] t.cls = "TestValueQuantile" -> r.ref_value
      [] OTHER -> None

\* the condition a check declares around a reference value
DeclaredCondition(cls, v) ==
    CASE cls = "TestTargetPredictionCorrelation" ->
            TestValueCondition([eq |-> approx(v, None, Num(25))])
      [] cls = "TestFeatureValueMin" -> TestValueCondition([gte |-> v])
      [] cls = "TestFeatureValueMax" -> TestValueCondition([lte |-> v])
      [] cls \in {"TestUniqueValuesShare", "TestMostCommonValueShare"} ->
            TestValueCondition([eq |-> approx(Div100(v), Num(10), None)])
      [] OTHER -> TestValueCondition([eq |-> approx(v, Num(10), None)])

\* the store of results with the result of t's metric replaced
WithResult(t, r) == [computed EXCEPT ![t.metric] = r]

\* C6: a value test without explicit condition whose metric result carries a
\* defined reference value derives its condition from the reference part: the
\* condition is the declared one around the reference statistic, and every
\* result with the same reference part, whatever its current part, gives the
\* same condition
C6_DerivedFromReference ==
    (/\ ResolvedOnResults
     /\ ResolvedTest.cls \in ReferenceDerived
     /\ ~has_condition(ResolvedTest.condition)
     /\ IsNum(ReferenceValue(ResolvedTest, ResultOf(ResolvedTest))))
        => /\ resolved.outcome =
                Return(DeclaredCondition(ResolvedTest.cls,
                                         ReferenceValue(ResolvedTest, ResultOf(ResolvedTest))))
           /\ \A r \in ResultsOf(ResolvedTest.metric.cls) :
                ReferencePart(ResolvedTest, r) = ReferencePart(ResolvedTest, ResultOf(ResolvedTest))
                    => get_condition(ResolvedTest, WithResult(ResolvedTest, r)) = resolved.outcome

\* the unique-count condition was derived from a reference whose unique
\* count differs from the current one
C6_Witness ==
    /\ ResolvedOnResults
    /\ ResolvedTest.cls = "TestNumberOfUniqueValues"
    /\ ResolvedTest.column_name = "age"
    /\ ~has_condition(ResolvedTest.condition)
    /\ ReferenceColumn(ResolvedTest, ResultOf(ResolvedTest)) = StatsA
    /\ "age" \in DOMAIN ResultOf(ResolvedTest).features_stats
    /\ ResultOf(ResolvedTest).features_stats["age"] = StatsB
    /\ resolved.outcome = Return(TestValueCondition([eq |-> approx(Num(200), Num(10), None)]))

\* the checks that have a fixed default, and the default of each
DefaultTests == (ReferenceDerived \cup ValueRangeTests \cup ValueListTests)
                    \ {"TestFeatureValueMin", "TestFeatureValueMax", "TestFeatureValueMean",
                       "TestFeatureValueMedian", "TestFeatureValueStd",
                       "TestUniqueValuesShare", "TestValueQuantile"}

DefaultCondition(cls) ==
    CASE cls = "TestTargetPredictionCorrelation" -> TestValueCondition([gt |-> Num(0)])
      [] cls \in {"TestHighlyCorrelatedFeatures", "TestTargetFeaturesCorrelations",
                  "TestPredictionFeaturesCorrelations"} -> TestValueCondition([lt |-> Num(90)])
      [] cls = "TestNumberOfUniqueValues" -> TestValueCondition([gt |-> Num(100)])
      [] cls = "TestMostCommonValueShare" -> TestValueCondition([lt |-> Num(80)])
      [] OTHER -> TestValueCondition([eq |-> approx(Num(0), None, None)])

\* no usable reference value: there is no reference, or the reference holds
\* None for the statistic (a reference lacking the column is another matter)
NoUsableReference(t, r) ==
    /\ ReferenceValue(t, r) = None
    /\ t.cls \in FeatureTests =>
          \/ r.reference_features_stats = None
          \/ t.column_name \in DOMAIN r.reference_features_stats

\* C7: get_condition() of a check with a sane default, without explicit
\* condition and without usable reference value, returns the fixed default
C7_FixedDefault ==
    (/\ ResolvedOnResults
     /\ ResolvedTest.cls \in DefaultTests
     /\ ~has_condition(ResolvedTest.condition)
     /\ NoUsableReference(ResolvedTest, ResultOf(ResolvedTest)))
        => resolved.outcome = Return(DefaultCondition(ResolvedTest.cls))

\* the unique-count test met a reference whose unique count is None
C7_Witness ==
    /\ ResolvedOnResults
    /\ ResolvedTest.cls = "TestNumberOfUniqueValues"
    /\ ~has_condition(ResolvedTest.condition)
    /\ ReferenceColumn(ResolvedTest, ResultOf(ResolvedTest)) = StatsNone
    /\ resolved.outcome = Return(TestValueCondition([eq |-> approx(None, Num(10), None)]))

(***************************************************************************)
(* Checks without a default                                                *)
(***************************************************************************)
NoDefaultTests == {"TestFeatureValueMin", "TestFeatureValueMax", "TestFeatureValueMean",
                   "TestFeatureValueMedian", "TestFeatureValueStd",
                   "TestUniqueValuesShare", "TestValueQuantile"}

\* test t has neither explicit condition nor reference data in result r
Unconfigured(t, r) ==
    /\ t.cls \in NoDefaultTests
    /\ ~has_condition(t.condition)
    /\ ReferencePart(t, r) = None

\* C8: a check without sane default, without explicit condition and without
\* reference data raises the configuration error, from get_condition() and
\* from check() alike, so the test never ends with SUCCESS or FAIL
C8_NoDefaultRaises ==
    /\ (ResolvedOnResults /\ Unconfigured(ResolvedTest, ResultOf(ResolvedTest)))
          => resolved.outcome = NoReferenceError
    /\ \A i \in DOMAIN suite :
          (CheckedOnResults(i) /\ Unconfigured(suite[i], ResultOf(suite[i])))
              => outcomes[i] = NoReferenceError

\* an unconfigured mean test was checked on a dataset without its column
C8_Witness ==
    \E i \in DOMAIN suite :
        /\ suite[i].cls = "TestFeatureValueMean"
        /\ CheckedOnResults(i)
        /\ Unconfigured(suite[i], ResultOf(suite[i]))
        /\ ColumnAbsent(i)
        /\ EndedWith(i, "FAIL")

(***************************************************************************)
(* Mean stability                                                          *)
(***************************************************************************)
\* the column of test i has statistics in the current and in the reference data
InBoth(i) ==
    /\ computed # <<>>
    /\ ResultOf(suite[i]).reference_features_stats # None
    /\ suite[i].column_name \in DOMAIN ResultOf(suite[i]).features_stats
    /\ suite[i].column_name \in DOMAIN ResultOf(suite[i]).reference_features_stats

\* the current mean lies between reference_mean - n_sigmas * reference_std
\* and reference_mean + n_sigmas * reference_std
InsideBounds(t, current, reference) ==
    /\ reference.mean.v - t.n_sigmas.v * reference.std.v < current.mean.v
    /\ current.mean.v < reference.mean.v + t.n_sigmas.v * reference.std.v

MeanInBounds(i) ==
    InsideBounds(suite[i], ResultOf(suite[i]).features_stats[suite[i].column_name],
                 ResultOf(suite[i]).reference_features_stats[suite[i].column_name])

\* C9: TestMeanInNSigmas.check(), for a column present in the current and in
\* the reference statistics, returns SUCCESS exactly when the current mean
\* lies inside the bounds around the reference mean, and FAIL otherwise
C9_MeanInBounds ==
    \A i \in DOMAIN suite :
        (suite[i].cls = "TestMeanInNSigmas" /\ CheckedOnResults(i) /\ InBoth(i))
            => /\ ~outcomes[i].raised
               /\ outcomes[i].value.status = IF MeanInBounds(i) THEN "SUCCESS" ELSE "FAIL"

\* check() ran on a column present in both datasets whose reference has no
\* mean and no standard deviation
C9_Witness ==
    \E i \in DOMAIN suite :
        /\ suite[i].cls = "TestMeanInNSigmas"
        /\ CheckedOnResults(i)
        /\ InBoth(i)
        /\ ResultOf(suite[i]).reference_features_stats[suite[i].column_name] = StatsNone
        /\ outcomes[i] = Raise("TypeError", "unsupported operand")

(***************************************************************************)
(* Generators                                                              *)
(***************************************************************************)
\* the columns a generator selects from the catalogue, in its order
Selection(generator, ci) ==
    CASE generator = "TestAllColumnsMostCommonValueShare" -> get_all_columns_list(ci)
      [] generator = "TestNumColumnsMeanInNSigmas" -> ci.num_feature_names
      [] generator = "TestNumColumnsOutOfRangeValues" -> ci.num_feature_names
      [] generator = "TestCatColumnsOutOfListValues" -> ci.cat_feature_names

\* the class of the tests a generator makes
Generated(generator) ==
    CASE generator = "TestAllColumnsMostCommonValueShare" -> "TestMostCommonValueShare"
      [] generator = "TestNumColumnsMeanInNSigmas" -> "TestMeanInNSigmas"
      [] generator = "TestNumColumnsOutOfRangeValues" -> "TestShareOfOutRangeValues"
      [] generator = "TestCatColumnsOutOfListValues" -> "TestShareOfOutListValues"

\* the suite holds one test of the class per column of the selection, in order
OnePerColumn(cls, selection) ==
    /\ Len(suite) = Len(selection)
    /\ \A i \in DOMAIN selection :
          /\ suite[i].cls = cls
          /\ suite[i].column_name = selection[i]
          /\ cls = "TestMeanInNSigmas" => suite[i].n_sigmas = PyInt(2)

\* C10: a generator yields exactly one test per column of its selection,
\* bound to that column, in the catalogue's order, none repeated or dropped
C10_OneTestPerColumn ==
    columns_info.generator # "none"
        => OnePerColumn(Generated(columns_info.generator),
                        Selection(columns_info.generator, columns_info.catalogue))

\* numeric columns age, income gave two mean tests, on age and then on income
C10_Witness ==
    /\ columns_info.generator = "TestNumColumnsMeanInNSigmas"
    /\ columns_info.catalogue.num_feature_names = <<"age", "income">>
    /\ Len(suite) = 2
    /\ suite[1].column_name = "age"
    /\ suite[2].column_name = "income"

\* C11: a generator whose selection policy matches no column of the catalogue
\* (no numeric column, no categorical column, no column at all) returns the
\* empty sequence of tests
C11_EmptySelectionEmptySuite ==
    (/\ columns_info.generator # "none"
     /\ Selection(columns_info.generator, columns_info.catalogue) = <<>>)
        => suite = <<>> /\ outcomes = <<>>

\* the out-of-range generator ran on a catalogue with categorical columns only
C11_Witness ==
    /\ columns_info.generator = "TestNumColumnsOutOfRangeValues"
    /\ columns_info.catalogue.num_feature_names = <<>>
    /\ columns_info.catalogue.cat_feature_names = <<"age", "region">>
    /\ suite = <<>>

\* the objects of one generate_tests() call are pairwise distinct, tests and
\* metrics alike, and bound to the selected columns in order
IndependentTests(call, selection) ==
    /\ Len(call) = Len(selection)
    /\ \A i \in DOMAIN call : call[i].test.column_name = selection[i]
    /\ \A i, j \in DOMAIN call :
          i # j => call[i].id # call[j].id /\ call[i].metric_id # call[j].metric_id

\* two generate_tests() calls gave the same columns in the same order and
\* share no test object and no metric object
FreshTests(first, second) ==
    /\ Len(first) = Len(second)
    /\ \A i \in DOMAIN first : first[i].test = second[i].test
    /\ \A i \in DOMAIN first, j \in DOMAIN second :
          first[i].id # second[j].id /\ first[i].metric_id # second[j].metric_id

PerColumnTests == TestClasses \ CorrelationTests

\* the resolved condition of test i, as check() saw it
ConditionSeen(i) == get_condition(suite[i], computed)

\* tests i and j saw the same value and the same condition
SameValueAndCondition(i, j) ==
    /\ suite[i].cls \in ValueTests
    /\ suite[j].cls \in ValueTests
    /\ suite[i].value = suite[j].value
    /\ ConditionSeen(i) = ConditionSeen(j)

\* C13: every result a per-column test returns from check() carries the
\* grouping by_feature -> column_name, and two tests that differ in their
\* column but saw the same value and condition have the same status
C13_GroupedByFeature ==
    /\ \A i \in DOMAIN suite :
          (suite[i].cls \in PerColumnTests /\ CheckedOnResults(i) /\ ~outcomes[i].raised)
              => outcomes[i].value.groups = ByFeature(suite[i].column_name)
    /\ \A i, j \in DOMAIN suite :
          (/\ CheckedOnResults(i) /\ ~outcomes[i].raised
           /\ CheckedOnResults(j) /\ ~outcomes[j].raised
           /\ SameValueAndCondition(i, j))
              => outcomes[i].value.status = outcomes[j].value.status

\* a most-common-value test returned a result without grouping
C13_Witness ==
    \E i \in DOMAIN suite :
        /\ suite[i].cls = "TestMostCommonValueShare"
        /\ ColumnAbsent(i)
        /\ CheckedOnResults(i)
        /\ ~outcomes[i].raised
        /\ outcomes[i].value.groups = {}

(***************************************************************************)
(* Construction of TestValueQuantile                                       *)
(***************************************************************************)
\* the arguments conflict, or the quantile is missing
BadQuantileArguments(a) ==
    \/ a.metric # None /\ (a.column_name # None \/ a.quantile # None)
    \/ a.metric = None /\ a.quantile = None

\* C14: constructing TestValueQuantile raises a configuration error exactly
\* when a metric comes with a column_name or a quantile, or when neither
\* metric nor quantile is given; otherwise the test
\* holds the given metric or a new DataQualityValueQuantileMetrics(column_name,
\* quantile)
C14_QuantileConstruction ==
    construction.called =>
        /\ construction.outcome.raised <=> BadQuantileArguments(construction)
        /\ construction.outcome.raised
              => construction.outcome.exc = "ValueError"
        /\ ~construction.outcome.raised
              => construction.outcome.value.metric =
                    IF construction.metric # None THEN construction.metric
                    ELSE Metric("DataQualityValueQuantileMetrics",
                                <<Name(construction.column_name), construction.quantile>>)

\* a metric was given together with a quantile only, and construction failed
C14_Witness ==
    /\ construction.called
    /\ construction.metric # None
    /\ construction.column_name = None
    /\ construction.quantile = Num(95)
    /\ construction.outcome = Raise("ValueError", "Test parameters and given  metric conflict")

(***************************************************************************)
(* Metric calculation                                                      *)
(***************************************************************************)
\* C15: in one execution calculate() is invoked at most once per distinct
\* (metric type, parameters) pair: tests on default DataQualityMetrics share
\* one computation whatever their column, tests on value-range or value-list
\* metrics of different columns have distinct metrics, and two
\* RegressionPerformanceMetrics are always the same dependency
C15_CalculateOncePerMetric ==
    /\ Metric("RegressionPerformanceMetrics", RegressionPerformanceMetrics_get_parameters)
          = Metric("RegressionPerformanceMetrics", <<>>)
    /\ (computed # <<>> /\ input = None) =>
          /\ DOMAIN calculations = MetricsOf(suite)
          /\ DOMAIN computed = MetricsOf(suite)
    /\ \A m \in DOMAIN calculations : calculations[m] <= 1
    /\ \A i, j \in DOMAIN suite :
          /\ (suite[i].metric.cls = "DataQualityMetrics" /\ suite[j].metric.cls = "DataQualityMetrics")
                => suite[i].metric = suite[j].metric
          /\ (/\ suite[i].cls \in ValueRangeTests \cup ValueListTests
              /\ suite[j].cls \in ValueRangeTests \cup ValueListTests
              /\ suite[i].column_name # suite[j].column_name)
                => suite[i].metric # suite[j].metric

\* two generated tests on different columns shared one calculated metric
C15_Witness ==
    /\ columns_info.generator = "TestAllColumnsMostCommonValueShare"
    /\ Len(suite) = 2
    /\ computed # <<>>
    /\ Cardinality(DOMAIN calculations) = 1
    /\ \A m \in DOMAIN calculations : calculations[m] = 1

\* C16: check() produces a TestResult only after the test's metric has been
\* calculated; run before that, it fails with the "not computed" error of
\* get_result() and leaves no result and no status
C16_CheckAfterCalculate ==
    \A i \in DOMAIN suite :
        /\ (outcomes[i] # NotRun /\ suite[i].metric \notin DOMAIN computed)
              => outcomes[i] = NotComputed
        /\ (outcomes[i] # NotRun /\ ~outcomes[i].raised)
              => suite[i].metric \in DOMAIN computed

\* a correlation test with an explicit condition was checked too early
C16_Witness ==
    \E i \in DOMAIN suite :
        /\ suite[i].cls = "TestHighlyCorrelatedFeatures"
        /\ has_condition(suite[i].condition)
        /\ computed = <<>>
        /\ outcomes[i] = NotComputed

(***************************************************************************)
(* Evaluation of a condition                                               *)
(***************************************************************************)
\* the condition gt=0, lt=10
OpenRange == TestValueCondition([gt |-> Num(0), lt |-> Num(1000)])

\* test i was given an explicit condition and check() held a number against it
EvaluatedExplicit(i) ==
    /\ suite[i].cls \in ValueTests
    /\ has_condition(suite[i].condition)
    /\ CheckedOnResults(i)
    /\ ~outcomes[i].raised
    /\ IsNum(suite[i].value)

\* C17: a condition is the conjunction of all its set fields: the test
\* passes exactly when every set field holds, and with gt=0 and lt=10
\* exactly for the values strictly between 0 and 10
C17_ConjunctionOfSetFields ==
    \A i \in DOMAIN suite :
        EvaluatedExplicit(i) =>
            /\ outcomes[i].value.status \in {"SUCCESS", "FAIL"}
            /\ outcomes[i].value.status = "SUCCESS"
                  <=> \A f \in ConditionFields :
                          suite[i].condition[f] # None
                              => FieldHolds(f, suite[i].condition[f], suite[i].value)
            /\ suite[i].condition = OpenRange
                  => (outcomes[i].value.status = "SUCCESS"
                         <=> (0 < suite[i].value.v /\ suite[i].value.v < 1000))

\* the boundary 10 failed gt=0, lt=10 although gt=0 alone holds
C17_Witness ==
    \E i \in DOMAIN suite :
        /\ EvaluatedExplicit(i)
        /\ suite[i].condition = OpenRange
        /\ suite[i].value = Num(1000)
        /\ outcomes[i].value.status = "FAIL"

(***************************************************************************)
(* The status the generic check() gives to a value                         *)
(***************************************************************************)
\* the outcome check() owes to a value and a resolved condition: ERROR for
\* None, else SUCCESS or FAIL as the value satisfies the condition
StatusOfValue(outcome, value, holds) ==
    IF value = None
    THEN ~outcome.raised /\ outcome.value.status = "ERROR"
    ELSE /\ (IsNum(value) /\ ~holds.raised) => ~outcome.raised
         /\ ~outcome.raised
               => outcome.value.status = IF holds.value THEN "SUCCESS" ELSE "FAIL"

\* the same, once the condition and the value are known to be there
StatusOfResolved(outcome, condition, value) ==
    (~condition.raised /\ ~value.raised)
        => StatusOfValue(outcome, value.value, check_value(condition.value, value.value))

\* C18: on a valid column the generic check() gives ERROR to the value None,
\* and to any other value SUCCESS if it satisfies the resolved condition and
\* FAIL if it does not, never ERROR or SKIPPED
C18_StatusOfValue ==
    \A i \in DOMAIN suite :
        (suite[i].cls \in ValueTests /\ CheckedOnResults(i) /\ ~ColumnAbsent(i))
            => StatusOfResolved(outcomes[i], ConditionSeen(i),
                                calculate_value_for_test(suite[i], computed))

\* the share of unique values is undefined and check() raised while describing it
C18_Witness ==
    \E i \in DOMAIN suite :
        /\ suite[i].cls = "TestUniqueValuesShare"
        /\ has_condition(suite[i].condition)
        /\ ~ColumnAbsent(i)
        /\ calculate_value_for_test(suite[i], computed) = Return(None)
        /\ outcomes[i] = FormatError

(***************************************************************************)
(* An undefined statistic of an existing column                            *)
(***************************************************************************)
\* check() answered the value with ERROR and the "No value for the feature" message
ErrorNamingFeature(outcome) ==
    /\ ~outcome.raised
    /\ outcome.value.status = "ERROR"
    /\ outcome.value.description.msg = "No value for the feature"

\* the condition is there and the statistic is undefined
UndefinedStatistic(condition, value) == ~condition.raised /\ value = Return(None)

\* C20: a per-feature value test whose column is in the current statistics
\* but whose statistic is None returns ERROR with a message naming the
\* feature; it returns neither FAIL nor SUCCESS and does not raise
C20_UndefinedStatisticIsError ==
    \A i \in DOMAIN suite :
        (/\ suite[i].cls \in FeatureTests
         /\ CheckedOnResults(i)
         /\ ~ColumnAbsent(i)
         /\ UndefinedStatistic(ConditionSeen(i), calculate_value_for_test(suite[i], computed)))
            => ErrorNamingFeature(outcomes[i])

\* the share of the most common value is undefined and check() raised
C20_Witness ==
    \E i \in DOMAIN suite :
        /\ suite[i].cls = "TestMostCommonValueShare"
        /\ ~ColumnAbsent(i)
        /\ CheckedOnResults(i)
        /\ UndefinedStatistic(ConditionSeen(i), calculate_value_for_test(suite[i], computed))
        /\ outcomes[i] = FormatError

(***************************************************************************)
(* The status of a result is assigned once                                 *)
(***************************************************************************)
\* C19: a result that check() returns was never re-marked: every status the
\* object carried during check() is the status it was created with
C19_StatusAssignedOnce ==
    \A i \in DOMAIN suite :
        (CheckedOnResults(i) /\ ~outcomes[i].raised)
            => \A k \in DOMAIN outcomes[i].value.marks :
                   outcomes[i].value.marks[k] = outcomes[i].value.marks[1]

\* a result created as SKIPPED was returned as FAIL for an absent column
C19_Witness ==
    \E i \in DOMAIN suite :
        /\ suite[i].cls \in FeatureTests
        /\ ColumnAbsent(i)
        /\ CheckedOnResults(i)
        /\ ~outcomes[i].raised
        /\ outcomes[i].value.marks = <<"SKIPPED", "FAIL">>

(***************************************************************************)
(* The metric a test is bound to                                           *)
(***************************************************************************)
\* the metric a test builds from its own parameters when none is injected
OwnMetric(t) ==
    CASE t.cls \in CorrelationTests -> Metric("DataQualityCorrelationMetrics", <<"pearson">>)
      [] t.cls \in ValueRangeTests \cup {"TestValueRange"} ->
            Metric("DataQualityValueRangeMetrics", <<t.column_name, t.left, t.right>>)
      [] t.cls \in ValueListTests \cup {"TestValueList"} ->
            Metric("DataQualityValueListMetrics", <<t.column_name, None>>)
      [] t.cls \in StabilityTests -> Metric("DataQualityStabilityMetrics", <<>>)
      [] t.cls = "TestValueQuantile" ->
            Metric("DataQualityValueQuantileMetrics",
                   <<t.column_name, IF construction.called THEN construction.quantile
                                    ELSE Num(50)>>)
      [] OTHER -> Metric("DataQualityMetrics", <<>>)

\* C21: a test holds the metric that was injected into its constructor, or,
\* when none was injected, the metric built from its own parameters; check()
\* leaves the bound metric and its calculated result as they are
C21_BoundMetric ==
    /\ [](\A i \in DOMAIN suite :
            suite[i].metric = IF injected # None THEN injected ELSE OwnMetric(suite[i]))
    /\ [][\A i \in DOMAIN suite :
            outcomes'[i] # outcomes[i]
                => /\ suite'[i].metric = suite[i].metric
                   /\ computed' = computed
                   /\ calculations' = calculations]_vars

\* a range test on "age" was checked on the metric of "income" it was given
C21_Witness ==
    \E i \in DOMAIN suite :
        /\ suite[i].cls \in ValueRangeTests
        /\ suite[i].column_name = "age"
        /\ injected = Metric("DataQualityValueRangeMetrics", <<"income", Num(0), Num(1000)>>)
        /\ suite[i].metric = injected
        /\ CheckedOnResults(i)

(***************************************************************************)
(* The tests with a check() of their own                                   *)
(***************************************************************************)
\* the not-stable count a conflict test looks at
NotStableCount(t) ==
    IF t.cls = "TestConflictTarget" THEN ResultOf(t).number_not_stable_target
    ELSE ResultOf(t).number_not_stable_prediction

\* C22: once the metric is calculated, check() of TestConflictTarget and of
\* TestConflictPrediction returns ERROR when the not-stable count is None,
\* FAIL when it is greater than 0 and SUCCESS when it is 0; it does not
\* raise and does not return SKIPPED
C22_ConflictStatus ==
    \A i \in DOMAIN suite :
        (suite[i].cls \in StabilityTests /\ CheckedOnResults(i))
            => /\ ~outcomes[i].raised
               /\ outcomes[i].value.status =
                     IF NotStableCount(suite[i]) = None THEN "ERROR"
                     ELSE IF NotStableCount(suite[i]).v > 0 THEN "FAIL"
                     ELSE "SUCCESS"

\* a stable target passed
C22_Witness ==
    \E i \in DOMAIN suite :
        /\ suite[i].cls = "TestConflictTarget"
        /\ CheckedOnResults(i)
        /\ NotStableCount(suite[i]) = Num(0)
        /\ EndedWith(i, "SUCCESS")

\* the number of values a range or list test found outside
NumberOutside(t) ==
    IF t.cls = "TestValueRange" THEN ResultOf(t).number_not_in_range
    ELSE ResultOf(t).number_not_in_list

\* C23: check() of TestValueRange and of TestValueList returns FAIL exactly
\* when the number of values out of range (out of list) is greater than 0
\* and SUCCESS otherwise, always grouped by the test's column
C23_OutsideValuesFail ==
    \A i \in DOMAIN suite :
        (suite[i].cls \in {"TestValueRange", "TestValueList"} /\ CheckedOnResults(i))
            => /\ ~outcomes[i].raised
               /\ outcomes[i].value.status =
                     IF NumberOutside(suite[i]).v > 0 THEN "FAIL" ELSE "SUCCESS"
               /\ outcomes[i].value.groups = ByFeature(suite[i].column_name)

\* half of the rows were out of range and the range test failed
C23_Witness ==
    \E i \in DOMAIN suite :
        /\ suite[i].cls = "TestValueRange"
        /\ CheckedOnResults(i)
        /\ NumberOutside(suite[i]) = Num(200)
        /\ EndedWith(i, "FAIL")
        /\ outcomes[i].value.groups = ByFeature(suite[i].column_name)

(***************************************************************************)
(* Changes of correlation                                                  *)
(***************************************************************************)
\* the unordered pairs of columns whose correlation moved by more than d
ChangedPairs(reference, current, d) ==
    { pair \in SUBSET CorrColumns :
        /\ Cardinality(pair) = 2
        /\ \E a, b \in pair :
              /\ a # b
              /\ Abs(reference.correlation_matrix[<<a, b>>].v
                       - current.correlation_matrix[<<a, b>>].v) > d }

\* the number of changed pairs test t should have counted
ChangedCount(t) ==
    Cardinality(ChangedPairs(ResultOf(t).reference, ResultOf(t).current, t.corr_diff.v))

\* C24: without explicit condition TestCorrelationChanges uses eq=0 whatever
\* the reference is; its value is the number of unordered column pairs whose
\* correlation differs by strictly more than corr_diff between reference and
\* current, and it passes exactly when there is no such pair
C24_CorrelationChanges ==
    \A i \in DOMAIN suite :
        (suite[i].cls = "TestCorrelationChanges" /\ suite[i].condition = NoCondition)
            => /\ ConditionSeen(i) = Return(TestValueCondition([eq |-> Num(0)]))
               /\ (CheckedOnResults(i) /\ ResultOf(suite[i]).reference # None)
                     => /\ ~outcomes[i].raised
                        /\ suite[i].value = Num(100 * ChangedCount(suite[i]))
                        /\ outcomes[i].value.status =
                              IF ChangedCount(suite[i]) = 0 THEN "SUCCESS" ELSE "FAIL"

\* one correlation moved by exactly corr_diff and two by more: two are counted
C24_Witness ==
    \E i \in DOMAIN suite :
        /\ suite[i].cls = "TestCorrelationChanges"
        /\ suite[i].condition = NoCondition
        /\ CheckedOnResults(i)
        /\ ResultOf(suite[i]).reference = CorrK1
        /\ ResultOf(suite[i]).current = CorrK3
        /\ suite[i].value = Num(200)
        /\ EndedWith(i, "FAIL")

(***************************************************************************)
(* The reference fields of RegressionPerformanceMetricsResults             *)
(***************************************************************************)
\* the result of the metric-only run
RegressionResult ==
    computed[Metric("RegressionPerformanceMetrics", RegressionPerformanceMetrics_get_parameters)]

\* the seven reference fields of a result, in the order mean_error_ref,
\* mean_abs_error_ref, mean_abs_perc_error_ref, rmse_ref, r2_score_ref,
\* abs_error_max_ref, underperformance_ref
ReferenceFields(result) ==
    <<result.mean_error_ref, result.mean_abs_error_ref, result.mean_abs_perc_error_ref,
      result.rmse_ref, result.r2_score_ref, result.abs_error_max_ref,
      result.underperformance_ref>>

\* their counterparts for the current data
CurrentFields(result) ==
    <<result.mean_error, result.mean_abs_error, result.mean_abs_perc_error,
      result.rmse, result.r2_score, result.abs_error_max, result.underperformance>>

\* the seven statistics taken of one dataset alone
StatisticsOf(dataset) ==
    <<Statistic("mean_error", dataset), Statistic("mean_abs_error", dataset),
      Statistic("mean_abs_perc_error", dataset), Statistic("mean_squared_error", dataset),
      Statistic("r2_score", dataset), Statistic("abs_error_max", dataset),
      Statistic("underperformance", dataset)>>

ReferenceFieldNames ==
    {"mean_error_ref", "mean_abs_error_ref", "mean_abs_perc_error_ref", "rmse_ref",
     "r2_score_ref", "abs_error_max_ref", "underperformance_ref"}

\* the fields that show both datasets side by side
CombinedFieldNames == {"error_bias", "hist_for_plot", "vals_for_plots", "me_hist_for_plot"}

\* the result the same current data gives without reference data
CurrentAlone == RegressionPerformanceMetrics_calculate(InputData(input.current_data, None))

\* the fields named in names are what the current data gives by itself
FromCurrentOnly(result, alone, names) == \A f \in names : result[f] = alone[f]

\* the seven reference fields are None without reference data and the
\* statistics of the reference dataset alone with it
ReferenceFieldsConsistent ==
    ReferenceFields(RegressionResult) =
        IF input.reference_data = None THEN [k \in 1..7 |-> None]
        ELSE StatisticsOf(input.reference_data)

\* C25, as stated: the reference fields are consistent and every field
\* without _ref is computed from the current dataset only
C25_NonRefFromCurrentOnly ==
    input # None
        => /\ ReferenceFieldsConsistent
           /\ FromCurrentOnly(RegressionResult, CurrentAlone,
                              DOMAIN RegressionResult \ ReferenceFieldNames)

\* C25, amended: without reference data all seven reference fields of the
\* result are None; with reference data each of them is the statistic of the
\* reference dataset alone; the fields without _ref are computed from the
\* current dataset only, except error_bias and the three plot fields, which
\* combine both datasets, error_bias keeping the entries of the current data
C25_ReferenceFields ==
    input # None
        => /\ ReferenceFieldsConsistent
           /\ CurrentFields(RegressionResult) = StatisticsOf(input.current_data)
           /\ FromCurrentOnly(RegressionResult, CurrentAlone,
                              DOMAIN RegressionResult
                                  \ (ReferenceFieldNames \cup CombinedFieldNames))
           /\ \A key \in DOMAIN CurrentAlone.error_bias :
                  RegressionResult.error_bias[key] = CurrentAlone.error_bias[key]

\* the metric was calculated on a current and a different reference dataset
C25_Witness ==
    /\ input # None
    /\ input.reference_data # None
    /\ input.reference_data # input.current_data
    /\ Len(input.reference_data.rows) = 2
    /\ RegressionResult.rmse_ref = Statistic("mean_squared_error", input.reference_data)

(***************************************************************************)
(* The condition the range renderers plot                                  *)
(***************************************************************************)
\* the test that was rendered, and the result it was rendered on
RenderedTest == suite[rendered.test]

\* the condition the claim expects for a test: its own bounds when both were
\* supplied, else the reference minimum and maximum of the metric result
PlottedCondition(t, result) ==
    IF t.left # None /\ t.right # None
    THEN TestValueCondition([gt |-> t.left, lt |-> t.right])
    ELSE TestValueCondition([gt |-> result.ref_min, lt |-> result.ref_max])

\* C30: the three range renderers plot gt=left, lt=right whenever both left
\* and right were supplied, a bound equal to 0 included, and fall back to
\* ref_min and ref_max of the metric only when one of them is absent
C30_RenderersAgree ==
    (rendered.test # 0 /\ computed # <<>>)
        => rendered.outcome = Return(PlottedCondition(RenderedTest, ResultOf(RenderedTest)))

\* a share test with left=0 and right=10 was plotted with the reference bounds
C30_Witness ==
    /\ rendered.test # 0
    /\ computed # <<>>
    /\ RenderedTest.cls = "TestShareOfOutRangeValues"
    /\ RenderedTest.left = Num(0)
    /\ RenderedTest.right = Num(1000)
    /\ rendered.outcome = Return(TestValueCondition([gt |-> Num(800), lt |-> Num(1200)]))

(***************************************************************************)
(* Strict bounds of the mean test                                          *)
(***************************************************************************)
\* test i compared two numeric means, the reference one with a numeric deviation
MeansCompared(i, current, reference) ==
    /\ IsNum(current.mean) /\ IsNum(reference.mean) /\ IsNum(reference.std)
    /\ CheckedOnResults(i)

\* the current mean is exactly the lower or the upper bound
OnBound(t, current, reference) ==
    \/ current.mean.v = reference.mean.v - t.n_sigmas.v * reference.std.v
    \/ current.mean.v = reference.mean.v + t.n_sigmas.v * reference.std.v

\* what the strict bounds owe to the two degenerate cases
StrictlyFailed(i, t, current, reference) ==
    (MeansCompared(i, current, reference)
        /\ (reference.std.v = 0 \/ t.n_sigmas.v = 0 \/ OnBound(t, current, reference)))
            => EndedWith(i, "FAIL")

\* C26: the bounds of TestMeanInNSigmas are strict: with a reference standard
\* deviation of 0, or with n_sigmas = 0, the test fails for every current
\* mean, the reference mean itself included, and a current mean equal to
\* either bound fails
C26_StrictBounds ==
    \A i \in DOMAIN suite :
        (suite[i].cls = "TestMeanInNSigmas" /\ InBoth(i))
            => StrictlyFailed(i, suite[i],
                              ResultOf(suite[i]).features_stats[suite[i].column_name],
                              ResultOf(suite[i]).reference_features_stats[suite[i].column_name])

\* a constant reference column and a current mean equal to its mean: FAIL
C26_Witness ==
    \E i \in DOMAIN suite :
        /\ suite[i].cls = "TestMeanInNSigmas"
        /\ InBoth(i)
        /\ suite[i].n_sigmas = PyInt(2)
        /\ ResultOf(suite[i]).reference_features_stats[suite[i].column_name] = StatsB
        /\ ResultOf(suite[i]).features_stats[suite[i].column_name] = StatsB
        /\ EndedWith(i, "FAIL")

(***************************************************************************)
(* The early return for an absent column                                   *)
(***************************************************************************)
\* check() returned the "not found" result as it was marked, holding neither
\* a value nor a condition, and stored no value on the test
ReturnedEarly(outcome, value) ==
    /\ ~outcome.raised
    /\ outcome.value.description = Description("Feature was not found", None, None)
    /\ value = [type |-> "unset"]

\* C27: for a column absent from the current feature statistics check() of a
\* per-feature value test returns before any verdict logic: it raises no
\* missing-key error, and asks neither for the value nor for the condition
\* nor for the description, and the test's value stays unset
C27_EarlyReturn ==
    \A i \in DOMAIN suite :
        (suite[i].cls \in FeatureTests /\ ColumnAbsent(i) /\ CheckedOnResults(i))
            => ReturnedEarly(outcomes[i], suite[i].value)

\* the test returned early where asking for its value raises a KeyError and
\* asking for its condition raises too
C27_Witness ==
    \E i \in DOMAIN suite :
        /\ suite[i].cls = "TestFeatureValueMin"
        /\ ColumnAbsent(i)
        /\ CheckedOnResults(i)
        /\ calculate_value_for_test(suite[i], computed) = KeyError
        /\ ConditionSeen(i).raised
        /\ ReturnedEarly(outcomes[i], suite[i].value)

(***************************************************************************)
(* A column the reference statistics do not hold                           *)
(***************************************************************************)
\* the metric result holds reference statistics, and the column of test i
\* is in the current statistics but not in the reference ones
MissingFromReference(i) ==
    /\ suite[i].metric.cls = "DataQualityMetrics"
    /\ CheckedOnResults(i)
    /\ suite[i].column_name \in DOMAIN ResultOf(suite[i]).features_stats
    /\ ResultOf(suite[i]).reference_features_stats # None
    /\ suite[i].column_name \notin DOMAIN ResultOf(suite[i]).reference_features_stats

\* C28: a per-feature value test without explicit condition whose column is
\* in the current feature statistics but missing from the reference ones gets
\* no condition (the lookup of the column in the reference statistics raises
\* KeyError), and its check() ends neither with SUCCESS nor with FAIL
C28_MissingFromReference ==
    \A i \in DOMAIN suite :
        (/\ suite[i].cls \in FeatureTests
         /\ ~has_condition(suite[i].condition)
         /\ MissingFromReference(i))
            => /\ ConditionSeen(i) = KeyError
               /\ ~EndedWith(i, "SUCCESS")
               /\ ~EndedWith(i, "FAIL")

\* check() of a unique values test raised for such a column although the
\* current statistics hold a number for it
C28_Witness ==
    \E i \in DOMAIN suite :
        /\ suite[i].cls = "TestNumberOfUniqueValues"
        /\ ~has_condition(suite[i].condition)
        /\ MissingFromReference(i)
        /\ calculate_value_for_test(suite[i], computed) # KeyError
        /\ ~calculate_value_for_test(suite[i], computed).raised
        /\ outcomes[i].raised

(***************************************************************************)
(* The order of the preconditions of TestMeanInNSigmas                     *)
(***************************************************************************)
\* check() of test i returned ERROR with this message
ErrorNaming(i, msg) ==
    /\ EndedWith(i, "ERROR")
    /\ outcomes[i].value.description = Description(msg, None, None)

\* C29: check() of TestMeanInNSigmas raises ValueError for absent reference
\* statistics before it looks for the column; with a reference, a column
\* missing from the current data gives ERROR naming the current data, also
\* when the reference lacks it too; a column missing only from the reference
\* gives ERROR naming the reference data; and the means are compared, ending
\* SUCCESS or FAIL, only for a column in both
C29_PreconditionOrder ==
    \A i \in DOMAIN suite :
        (suite[i].cls = "TestMeanInNSigmas" /\ CheckedOnResults(i))
            => LET result == ResultOf(suite[i])
                   column_name == suite[i].column_name
               IN  /\ result.reference_features_stats = None
                        => outcomes[i] = Raise("ValueError", "Reference should be present")
                   /\ (/\ result.reference_features_stats # None
                       /\ column_name \notin DOMAIN result.features_stats)
                        => ErrorNaming(i, "Column should be in current data")
                   /\ (/\ result.reference_features_stats # None
                       /\ column_name \in DOMAIN result.features_stats
                       /\ column_name \notin DOMAIN result.reference_features_stats)
                        => ErrorNaming(i, "Column should be in reference data")
                   /\ (EndedWith(i, "SUCCESS") \/ EndedWith(i, "FAIL")) => InBoth(i)

\* a column missing from both datasets was reported as missing from the
\* current data
C29_Witness ==
    \E i \in DOMAIN suite :
        /\ suite[i].cls = "TestMeanInNSigmas"
        /\ CheckedOnResults(i)
        /\ ResultOf(suite[i]).reference_features_stats # None
        /\ suite[i].column_name \notin DOMAIN ResultOf(suite[i]).features_stats
        /\ suite[i].column_name \notin DOMAIN ResultOf(suite[i]).reference_features_stats
        /\ ErrorNaming(i, "Column should be in current data")

====
